---------------------------- MODULE Spec2Model ----------------------------
(***************************************************************************)
(* LaunchBox import pipeline of Pegasus Frontend (LaunchboxProvider.cpp).  *)
(*                                                                         *)
(* Strings are TLA+ strings; QString positions are 0-based in the source   *)
(* and are converted at the operator boundary.  Ratings are fixed-point    *)
(* numbers with RatingScale units per 1.0.                                 *)
(***************************************************************************)
EXTENDS Integers, Sequences, FiniteSets, TLC

VARIABLES
    games,              \* sctx.games            : game id -> Game
    path_to_gameid,     \* sctx.path_to_gameid   : canonical path -> game id
    collections,        \* sctx.collections      : set of collection names
    collection_childs,  \* sctx.collection_childs: name -> sequence of ids
    emus,               \* emu_data.emus         : emulator id -> Emulator
    platforms,          \* emu_data.platforms    : sequence of Platform
    pc,                 \* position inside findLists
    pidx,               \* index of the platform being processed
    gameid_map,         \* platform_xml_read_root: XML game id -> game id
    addiapps,           \* platform_xml_read_root: collected addiapp entries
    xmlerr,             \* QXmlStreamReader error flag of the open file
    nread,              \* numbers of XML elements consumed so far
    doc,                \* the elements read from the open platform file
    log,                \* diagnostics emitted, in order
    last                \* the operation that produced this state, its input

vars == <<games, path_to_gameid, collections, collection_childs, emus,
          platforms, pc, pidx, gameid_map, addiapps, xmlerr, nread, doc, log,
          last>>

sctx == <<games, path_to_gameid, collections, collection_childs>>

-----------------------------------------------------------------------------
(* QString helpers *)

CharAt(s, i) == SubSeq(s, i, i)

IsSpace(c) == c \in {" ", "\t", "\n"}

RECURSIVE TrimLeft(_)
TrimLeft(s) ==
    IF Len(s) > 0 /\ IsSpace(CharAt(s, 1))
    THEN TrimLeft(SubSeq(s, 2, Len(s)))
    ELSE s

RECURSIVE TrimRight(_)
TrimRight(s) ==
    IF Len(s) > 0 /\ IsSpace(CharAt(s, Len(s)))
    THEN TrimRight(SubSeq(s, 1, Len(s) - 1))
    ELSE s

Trimmed(s) == TrimRight(TrimLeft(s))

StartsWith(s, pre) == Len(s) >= Len(pre) /\ SubSeq(s, 1, Len(pre)) = pre

EndsWith(s, suf) ==
    Len(s) >= Len(suf) /\ SubSeq(s, Len(s) - Len(suf) + 1, Len(s)) = suf

\* QString::left(n): the whole string when n is negative or not below size
Left(s, n) == IF n < 0 \/ n >= Len(s) THEN s ELSE SubSeq(s, 1, n)

\* QString::replace(before, after): every occurrence, left to right
RECURSIVE ReplaceAll(_, _, _)
ReplaceAll(s, before, after) ==
    IF Len(s) < Len(before) \/ Len(before) = 0 THEN s
    ELSE IF SubSeq(s, 1, Len(before)) = before
         THEN after \o ReplaceAll(SubSeq(s, Len(before) + 1, Len(s)), before, after)
         ELSE CharAt(s, 1) \o ReplaceAll(SubSeq(s, 2, Len(s)), before, after)

\* backwards search from 1-based position p; the result is a 0-based index
RECURSIVE LastIndexFrom(_, _, _)
LastIndexFrom(s, c, p) ==
    IF p < 1 THEN -1
    ELSE IF CharAt(s, p) = c THEN p - 1
    ELSE LastIndexFrom(s, c, p - 1)

\* QString::lastIndexOf(c, from) with a negative from (counted from the end)
LastIndexOf(s, c, from) == LastIndexFrom(s, c, Len(s) + from + 1)

\* QString::splitRef(sep) with the default KeepEmptyParts
RECURSIVE SplitAcc(_, _, _)
SplitAcc(s, sep, cur) ==
    IF Len(s) = 0 THEN <<cur>>
    ELSE IF CharAt(s, 1) = sep
         THEN <<cur>> \o SplitAcc(SubSeq(s, 2, Len(s)), sep, "")
         ELSE SplitAcc(SubSeq(s, 2, Len(s)), sep, cur \o CharAt(s, 1))

Split(s, sep) == SplitAcc(s, sep, "")

SeqRange(q) == { q[i] : i \in 1..Len(q) }

\* QStringList::removeDuplicates(): the first occurrence of each entry stays
RECURSIVE DedupAcc(_, _)
DedupAcc(q, acc) ==
    IF q = <<>> THEN acc
    ELSE IF Head(q) \in SeqRange(acc)
         THEN DedupAcc(Tail(q), acc)
         ELSE DedupAcc(Tail(q), Append(acc, Head(q)))

RemoveDuplicates(q) == DedupAcc(q, <<>>)

NoDuplicates(q) == \A i, j \in 1..Len(q) : q[i] = q[j] => i = j

Digits == {"0", "1", "2", "3", "4", "5", "6", "7", "8", "9"}

DigitVal(c) ==
    CASE c = "0" -> 0 [] c = "1" -> 1 [] c = "2" -> 2 [] c = "3" -> 3
      [] c = "4" -> 4 [] c = "5" -> 5 [] c = "6" -> 6 [] c = "7" -> 7
      [] c = "8" -> 8 [] c = "9" -> 9

AllDigits(s) == \A i \in 1..Len(s) : CharAt(s, i) \in Digits

RECURSIVE DecVal(_)
DecVal(s) ==
    IF Len(s) = 0 THEN 0
    ELSE 10 * DecVal(SubSeq(s, 1, Len(s) - 1)) + DigitVal(CharAt(s, Len(s)))

-----------------------------------------------------------------------------
(* numbers and dates *)

\* units of the fixed-point rating per 1.0
RatingScale == 10000

\* QString::toFloat for plain decimal notation: [sign] digits [. digits];
\* fraction digits beyond the scale are dropped
ToFloat(s) ==
    LET neg   == StartsWith(s, "-")
        body  == IF neg \/ StartsWith(s, "+") THEN SubSeq(s, 2, Len(s)) ELSE s
        dot   == LastIndexOf(body, ".", -1)
        ipart == IF dot < 0 THEN body ELSE SubSeq(body, 1, dot)
        fpart == IF dot < 0 THEN "" ELSE SubSeq(body, dot + 2, Len(body))
        ok    == /\ AllDigits(ipart) /\ AllDigits(fpart)
                 /\ Len(ipart) + Len(fpart) > 0
        mag   == DecVal(ipart) * RatingScale + DecVal(SubSeq(fpart \o "0000", 1, 4))
    IN  IF ok THEN [ok |-> TRUE, val |-> IF neg THEN 0 - mag ELSE mag]
        ELSE [ok |-> FALSE, val |-> 0]

ToInt(s) == IF Len(s) > 0 /\ AllDigits(s) THEN DecVal(s) ELSE 0

InvalidDate == [y |-> 0, m |-> 0, d |-> 0]

IsLeap(y) == (y % 4 = 0 /\ y % 100 # 0) \/ y % 400 = 0

DaysInMonth(y, m) ==
    IF m = 2 THEN (IF IsLeap(y) THEN 29 ELSE 28)
    ELSE IF m \in {4, 6, 9, 11} THEN 30 ELSE 31

\* QDate::isValid
DateIsValid(dt) ==
    dt.y # 0 /\ dt.m \in 1..12 /\ dt.d >= 1 /\ dt.d <= DaysInMonth(dt.y, dt.m)

\* QDate::fromString(s, Qt::ISODate): yyyy-MM-dd, anything may follow
DateFromIso(s) ==
    IF \/ Len(s) < 10
       \/ CharAt(s, 5) \in Digits
       \/ CharAt(s, 8) \in Digits
       \/ (Len(s) > 10 /\ CharAt(s, 11) \in Digits)
    THEN InvalidDate
    ELSE LET dt == [y |-> ToInt(SubSeq(s, 1, 4)),
                    m |-> ToInt(SubSeq(s, 6, 7)),
                    d |-> ToInt(SubSeq(s, 9, 10))]
         IN  IF DateIsValid(dt) THEN dt ELSE InvalidDate

-----------------------------------------------------------------------------
(* the file system the scan runs on *)

lb_dir == "/lb/"

\* regular files, by canonical path
FsFiles == {"/lb/g/a.rom", "/lb/g/b.rom", "/lb/g/c.rom",
            "/lb/emu/ea.exe", "/lb/alt/eb.exe",
            "/lb/Data/Platforms/NES.xml", "/lb/Data/Platforms/SNES.xml"}

\* symbolic links, to the canonical path they resolve to
FsLinks == ("/lb/g/lnk.rom" :> "/lb/g/a.rom")

\* QFileInfo(dir, file): an absolute file name stands for itself
FileInfo(dir, file) == IF StartsWith(file, "/") THEN file ELSE dir \o file

\* QFileInfo::canonicalFilePath: empty when the file does not exist
CanonicalFilePath(p) ==
    IF p \in FsFiles THEN p
    ELSE IF p \in DOMAIN FsLinks THEN FsLinks[p]
    ELSE ""

\* QFileInfo::exists
Exists(p) == CanonicalFilePath(p) # ""

\* QFileInfo::operator== for existing files: the same file on disk
SameFile(p, q) == p = q \/ CanonicalFilePath(p) = CanonicalFilePath(q)

\* QFileInfo::absolutePath: the path without the file name
AbsolutePath(p) ==
    LET i == LastIndexOf(p, "/", -1)
    IN  IF i <= 0 THEN "/" ELSE SubSeq(p, 1, i)

\* QFileInfo::fileName
FileName(p) ==
    LET i == LastIndexOf(p, "/", -1)
    IN  IF i < 0 THEN p ELSE SubSeq(p, i + 2, Len(p))

\* QFileInfo::completeBaseName: the file name up to its last dot
CompleteBaseName(p) ==
    LET f == FileName(p)
        i == LastIndexOf(f, ".", -1)
    IN  IF i < 0 THEN f ELSE SubSeq(f, 1, i)

-----------------------------------------------------------------------------
(* data model *)

GameField == {"ID", "PATH", "TITLE", "RELEASE", "DEVELOPER", "PUBLISHER",
              "NOTES", "PLAYMODE", "GENRE", "STARS", "EMULATOR",
              "EMULATOR_PARAMS"}

AdditionalAppField == {"ID", "GAME_ID", "PATH", "NAME"}

\* Literals::gamefield_map: XML tag -> GameField
gamefield_map ==
    [t \in {"ID", "ApplicationPath", "Title", "Developer", "Publisher",
            "ReleaseDate", "Notes", "PlayMode", "Genre",
            "CommunityStarRating", "Emulator", "CommandLine"} |->
        CASE t = "ID" -> "ID"
          [] t = "ApplicationPath" -> "PATH"
          [] t = "Title" -> "TITLE"
          [] t = "Developer" -> "DEVELOPER"
          [] t = "Publisher" -> "PUBLISHER"
          [] t = "ReleaseDate" -> "RELEASE"
          [] t = "Notes" -> "NOTES"
          [] t = "PlayMode" -> "PLAYMODE"
          [] t = "Genre" -> "GENRE"
          [] t = "CommunityStarRating" -> "STARS"
          [] t = "Emulator" -> "EMULATOR"
          [] t = "CommandLine" -> "EMULATOR_PARAMS"]

\* Literals::addiappfield_map: XML tag -> AdditionalAppField
addiappfield_map ==
    [t \in {"Id", "ApplicationPath", "GameID", "Name"} |->
        CASE t = "Id" -> "ID"
          [] t = "ApplicationPath" -> "PATH"
          [] t = "GameID" -> "GAME_ID"
          [] t = "Name" -> "NAME"]

\* the category list with its first two entries in the opposite order
assetdir_map_Reordered ==
    << <<"Box - Front - Reconstructed", "BOX_FRONT">>,
       <<"Box - Front", "BOX_FRONT">>,
       <<"Fanart - Box - Front", "BOX_FRONT">>,
       <<"Box - Back", "BOX_BACK">>,
       <<"Box - Back - Reconstructed", "BOX_BACK">>,
       <<"Fanart - Box - Back", "BOX_BACK">>,
       <<"Arcade - Marquee", "ARCADE_MARQUEE">>,
       <<"Banner", "ARCADE_MARQUEE">>,
       <<"Cart - Front", "CARTRIDGE">>,
       <<"Disc", "CARTRIDGE">>,
       <<"Fanart - Cart - Front", "CARTRIDGE">>,
       <<"Fanart - Disc", "CARTRIDGE">>,
       <<"Screenshot - Gameplay", "SCREENSHOTS">>,
       <<"Screenshot - Game Select", "SCREENSHOTS">>,
       <<"Screenshot - Game Title", "SCREENSHOTS">>,
       <<"Screenshot - Game Over", "SCREENSHOTS">>,
       <<"Screenshot - High Scores", "SCREENSHOTS">>,
       <<"Advertisement Flyer - Front", "POSTER">>,
       <<"Arcade - Control Panel", "ARCADE_PANEL">>,
       <<"Clear Logo", "LOGO">>,
       <<"Fanart - Background", "BACKGROUND">>,
       <<"Steam Banner", "UI_STEAMGRID">> >>

\* Literals::assetdir_map, ordered by priority
assetdir_map ==
    << <<"Box - Front", "BOX_FRONT">>,
       <<"Box - Front - Reconstructed", "BOX_FRONT">>,
       <<"Fanart - Box - Front", "BOX_FRONT">>,
       <<"Box - Back", "BOX_BACK">>,
       <<"Box - Back - Reconstructed", "BOX_BACK">>,
       <<"Fanart - Box - Back", "BOX_BACK">>,
       <<"Arcade - Marquee", "ARCADE_MARQUEE">>,
       <<"Banner", "ARCADE_MARQUEE">>,
       <<"Cart - Front", "CARTRIDGE">>,
       <<"Disc", "CARTRIDGE">>,
       <<"Fanart - Cart - Front", "CARTRIDGE">>,
       <<"Fanart - Disc", "CARTRIDGE">>,
       <<"Screenshot - Gameplay", "SCREENSHOTS">>,
       <<"Screenshot - Game Select", "SCREENSHOTS">>,
       <<"Screenshot - Game Title", "SCREENSHOTS">>,
       <<"Screenshot - Game Over", "SCREENSHOTS">>,
       <<"Screenshot - High Scores", "SCREENSHOTS">>,
       <<"Advertisement Flyer - Front", "POSTER">>,
       <<"Arcade - Control Panel", "ARCADE_PANEL">>,
       <<"Clear Logo", "LOGO">>,
       <<"Fanart - Background", "BACKGROUND">>,
       <<"Steam Banner", "UI_STEAMGRID">> >>

AssetType == {"BOX_FRONT", "BOX_BACK", "ARCADE_MARQUEE", "CARTRIDGE",
              "SCREENSHOTS", "POSTER", "ARCADE_PANEL", "LOGO", "BACKGROUND",
              "UI_STEAMGRID", "MUSIC", "VIDEOS"}

\* struct Emulator
Emulator(app_path, cmd_params) ==
    [app_path |-> app_path, cmd_params |-> cmd_params]

EmulatorIncomplete(emu) == emu.app_path = ""

\* struct Platform
Platform(default_emu_id, name, cmd_params, xml_path) ==
    [default_emu_id |-> default_emu_id, name |-> name,
     cmd_params |-> cmd_params, xml_path |-> xml_path]

PlatformIncomplete(p) ==
    p.default_emu_id = "" \/ p.name = "" \/ p.xml_path = ""

\* modeldata::GameFile
GameFile(fileinfo) == [fileinfo |-> fileinfo, name |-> ""]

\* modeldata::Game(finfo): a fresh record around its source file
NewGame(finfo) ==
    [title          |-> CompleteBaseName(finfo),
     description    |-> "",
     developers     |-> <<>>,
     publishers     |-> <<>>,
     genres         |-> <<>>,
     release_date   |-> InvalidDate,
     rating         |-> 0,
     launch_cmd     |-> "",
     launch_workdir |-> "",
     files          |-> <<GameFile(finfo)>>,
     assets         |-> [t \in AssetType |-> <<>>]]

\* GameAssets::addFileMaybe: a type that already holds a file keeps it
AddFileMaybe(game, type, path) ==
    IF game.assets[type] = <<>>
    THEN [game EXCEPT !.assets[type] = <<path>>]
    ELSE game

-----------------------------------------------------------------------------
(* store_game_fields *)

\* a rating below this counts as unset (0.0001f)
RatingEpsilon == 1

\* list.append(value) with the removeDuplicates() call left out
AppendUnique_NoDedup(list, value) == Append(list, value)

\* list.append(value); list.removeDuplicates()
AppendUnique(list, value) == RemoveDuplicates(Append(list, value))

\* case GameField::STARS
MergeRating(rating, text) ==
    IF rating < RatingEpsilon
    THEN LET f == ToFloat(text)
         IN  IF f.ok /\ f.val > rating THEN f.val ELSE rating
    ELSE rating

\* case GameField::PLAYMODE
MergePlayMode(genres, text) ==
    LET parts == Split(text, ";")
    IN  RemoveDuplicates(genres \o [i \in 1..Len(parts) |-> Trimmed(parts[i])])

\* the parameters in effect before the fields are looked at
DefaultParams(platform, emulators) ==
    IF platform.cmd_params = ""
    THEN emulators[platform.default_emu_id].app_path
    ELSE platform.cmd_params

\* the launch command without the quotes around the executable
LaunchCmd_NoQuotes(emu_app, emu_params) ==
    emu_app \o " " \o emu_params \o " {file.path}"

\* QStringLiteral("\"%1\" %2 {file.path}").arg(emu_app, emu_params)
LaunchCmd(emu_app, emu_params) ==
    "\"" \o emu_app \o "\" " \o emu_params \o " {file.path}"

\* one iteration of the loop over the fields
FieldStep(acc, key, val, emulators) ==
    CASE key = "TITLE" -> [acc EXCEPT !.game.title = val]
      [] key = "NOTES" ->
            IF acc.game.description = ""
            THEN [acc EXCEPT !.game.description = val] ELSE acc
      [] key = "DEVELOPER" ->
            [acc EXCEPT !.game.developers = AppendUnique(@, val)]
      [] key = "PUBLISHER" ->
            [acc EXCEPT !.game.publishers = AppendUnique(@, val)]
      [] key = "GENRE" ->
            [acc EXCEPT !.game.genres = AppendUnique(@, val)]
      [] key = "RELEASE" ->
            IF ~DateIsValid(acc.game.release_date)
            THEN [acc EXCEPT !.game.release_date = DateFromIso(val)] ELSE acc
      [] key = "STARS" ->
            [acc EXCEPT !.game.rating = MergeRating(@, val)]
      [] key = "PLAYMODE" ->
            [acc EXCEPT !.game.genres = MergePlayMode(@, val)]
      [] key = "EMULATOR" ->
            IF val \in DOMAIN emulators
            THEN [acc EXCEPT !.emu_app = emulators[val].app_path] ELSE acc
      [] key = "EMULATOR_PARAMS" -> [acc EXCEPT !.emu_params = val]
      [] key \in {"ID", "PATH"} -> acc

RECURSIVE FieldLoop(_, _, _)
FieldLoop(acc, fields, emulators) ==
    IF fields = <<>> THEN acc
    ELSE FieldLoop(FieldStep(acc, Head(fields)[1], Head(fields)[2], emulators),
                   Tail(fields), emulators)

\* store_game_fields that launches with the platform's emulator whatever the
\* Emulator field says
store_game_fields_DefaultEmu(game, fields, platform, emulators) ==
    LET emu_app == emulators[platform.default_emu_id].app_path
        acc0 == [game       |-> game,
                 emu_app    |-> emu_app,
                 emu_params |-> DefaultParams(platform, emulators)]
        acc  == FieldLoop(acc0, fields, emulators)
    IN  [acc.game EXCEPT !.launch_cmd = LaunchCmd(emu_app, acc.emu_params),
                         !.launch_workdir = AbsolutePath(emu_app)]

\* fields: the <<key, value>> pairs in the order the hash map yields them
store_game_fields(game, fields, platform, emulators) ==
    LET acc0 == [game       |-> game,
                 emu_app    |-> emulators[platform.default_emu_id].app_path,
                 emu_params |-> DefaultParams(platform, emulators)]
        acc  == FieldLoop(acc0, fields, emulators)
    IN  [acc.game EXCEPT !.launch_cmd = LaunchCmd(acc.emu_app, acc.emu_params),
                         !.launch_workdir = AbsolutePath(acc.emu_app)]

Perms(S) ==
    { q \in [1..Cardinality(S) -> S] : \A i, j \in DOMAIN q : q[i] = q[j] => i = j }

\* every order in which an unordered map may be iterated
FieldOrders(values) ==
    { [i \in 1..Len(q) |-> <<q[i], values[q[i]]>>] : q \in Perms(DOMAIN values) }

-----------------------------------------------------------------------------
(* SpecFields: store_game_fields applied repeatedly to one game record *)

MaxMerges == 3

EmptyMap == [x \in {} |-> 0]

\* a registry result: two emulators, the second without own parameters
FieldEmus == ("ea" :> Emulator("/lb/emu/ea.exe", "-a")) @@
             ("eb" :> Emulator("/lb/alt/eb.exe", ""))

FieldPlatforms ==
    { Platform("ea", "NES", "", "/lb/Data/Platforms/NES.xml"),
      Platform("ea", "NES", "-p", "/lb/Data/Platforms/NES.xml") }

FieldMaps ==
    { "STARS" :> v : v \in {"0.5", "0.3", "0.9", "abc", "-0.2", "1.5"} }
    \cup { "DEVELOPER" :> "DevA", "GENRE" :> "Action",
           "PLAYMODE" :> "Coop; Action;Coop", "EMULATOR_PARAMS" :> "-g",
           "EMULATOR" :> "eb", "EMULATOR" :> "nope",
           "NOTES" :> "n1", "NOTES" :> "n2",
           "RELEASE" :> "1996-06-23T00:00:00-07:00", "RELEASE" :> "1996-02-30",
           "TITLE" :> "T1",
           EmptyMap,
           ("DEVELOPER" :> "DevA") @@ ("PUBLISHER" :> "PubA") @@
               ("GENRE" :> "Coop") @@ ("PLAYMODE" :> "Solo;Coop ; Solo"),
           ("EMULATOR" :> "eb") @@ ("EMULATOR_PARAMS" :> "-g") @@
               ("STARS" :> "0.9"),
           ("ID" :> "g1") @@ ("PATH" :> "g/a.rom") @@ ("DEVELOPER" :> "DevB") }

InitFields ==
    /\ games = (0 :> NewGame("/lb/g/a.rom"))
    /\ path_to_gameid = EmptyMap
    /\ collections = {}
    /\ collection_childs = EmptyMap
    /\ emus = FieldEmus
    /\ \E p \in FieldPlatforms : platforms = <<p>>
    /\ pc = "fields"
    /\ pidx = 1
    /\ gameid_map = EmptyMap
    /\ addiapps = <<>>
    /\ xmlerr = FALSE
    /\ nread = [game |-> 0, other |-> 0]
    /\ doc = <<>>
    /\ log = <<>>
    /\ last = [op |-> "init", hist |-> <<>>]

\* one more call of store_game_fields on the same record
MergeFields ==
    /\ pc = "fields"
    /\ Len(last.hist) < MaxMerges
    /\ \E values \in FieldMaps : \E fields \in FieldOrders(values) :
          /\ games' = [games EXCEPT ![0] =
                          store_game_fields(@, fields, platforms[1], emus)]
          /\ last' = [op |-> "store_game_fields",
                      hist |-> Append(last.hist, values)]
    /\ UNCHANGED <<doc, path_to_gameid, collections, collection_childs, emus,
                   platforms, pc, pidx, gameid_map, addiapps, xmlerr, nread,
                   log>>

NextFields == MergeFields

SpecFields == InitFields /\ [][NextFields]_vars

SetMax(S) == CHOOSE x \in S : \A y \in S : y <= x

\* the STARS values merged so far that parse as numbers
ObservedStars(hist) ==
    { ToFloat(hist[i]["STARS"]).val :
        i \in { j \in 1..Len(hist) : /\ "STARS" \in DOMAIN hist[j]
                                     /\ ToFloat(hist[j]["STARS"]).ok } }

\* C2: after any sequence of STARS merges into one game the rating is the
\* maximum of the values observed (0 standing for unset); in particular
\* 0.5, 0.3, 0.9 end at 0.9.
C2_RatingMaxWins ==
    pc = "fields" =>
        games[0].rating = SetMax(ObservedStars(last.hist) \cup {0})

\* C7: every list-typed field is free of duplicates after every merge, and
\* merging the map that was just merged into a fresh game a second time
\* leaves developers, publishers and genres as the first merge left them.
C7_MergeIdempotent ==
    /\ [](pc = "fields" =>
            /\ NoDuplicates(games[0].developers)
            /\ NoDuplicates(games[0].publishers)
            /\ NoDuplicates(games[0].genres))
    /\ [][(/\ pc = "fields"
           /\ Len(last.hist) = 1
           /\ Len(last'.hist) = 2
           /\ last'.hist[2] = last.hist[1])
          => /\ games'[0].developers = games[0].developers
             /\ games'[0].publishers = games[0].publishers
             /\ games'[0].genres = games[0].genres]_vars

\* C7 witness: a map with developer, publisher, genre and a play mode that
\* repeats a genre has been merged twice into the fresh game
C7_Witness ==
    /\ pc = "fields"
    /\ Len(last.hist) = 2
    /\ last.hist[1] = last.hist[2]
    /\ {"DEVELOPER", "PUBLISHER", "GENRE", "PLAYMODE"} \subseteq DOMAIN last.hist[1]
    /\ games[0].genres \in {<<"Coop", "Solo">>, <<"Solo", "Coop">>}
    /\ games[0].developers = <<"DevA">>

\* C8: the parameters in a new game's launch command are the game's own
\* CommandLine if present, else the platform's non-empty override, else the
\* default parameters of the emulator.
C8_ParamsPrecedence ==
    (pc = "fields" /\ Len(last.hist) = 1) =>
        LET f    == last.hist[1]
            plat == platforms[1]
            used == IF "EMULATOR" \in DOMAIN f /\ f["EMULATOR"] \in DOMAIN emus
                    THEN f["EMULATOR"] ELSE plat.default_emu_id
            want(e) == IF "EMULATOR_PARAMS" \in DOMAIN f THEN f["EMULATOR_PARAMS"]
                       ELSE IF plat.cmd_params # "" THEN plat.cmd_params
                       ELSE emus[e].cmd_params
        IN  games[0].launch_cmd \in
                { LaunchCmd(emus[used].app_path, want(e)) :
                    e \in {used, plat.default_emu_id} }

\* a fresh game has been through store_game_fields once
NewGameStored == pc = "fields" /\ Len(last.hist) = 1

\* the id of the emulator a game with these fields is to be launched with
EffectiveEmulator(f, platform) ==
    IF "EMULATOR" \in DOMAIN f /\ f["EMULATOR"] \in DOMAIN emus
    THEN f["EMULATOR"]
    ELSE platform.default_emu_id

\* the directory of each emulator executable of FieldEmus
EmulatorDirOf ==
    ("/lb/emu/ea.exe" :> "/lb/emu") @@ ("/lb/alt/eb.exe" :> "/lb/alt")

\* C14: a new game is launched with the executable of the emulator its
\* Emulator field names when the emulator map has that id, and with the
\* executable of the platform's default emulator when the field is absent
\* or names an unknown id; the working directory is that of the same
\* executable.
C14_EmulatorOverride ==
    NewGameStored =>
        LET app == emus[EffectiveEmulator(last.hist[1], platforms[1])].app_path
        IN  /\ StartsWith(games[0].launch_cmd, "\"" \o app \o "\" ")
            /\ games[0].launch_workdir = EmulatorDirOf[app]

\* C14 witness: a game of a platform with default emulator ea names eb
C14_Witness ==
    /\ NewGameStored
    /\ platforms[1].default_emu_id = "ea"
    /\ "EMULATOR" \in DOMAIN last.hist[1]
    /\ last.hist[1]["EMULATOR"] = "eb"
    /\ StartsWith(games[0].launch_cmd, "\"/lb/alt/eb.exe\" ")
    /\ games[0].launch_workdir = "/lb/alt"

C22_RatingRange ==
    pc = "fields" => (games[0].rating >= 0 /\ games[0].rating <= RatingScale)

-----------------------------------------------------------------------------
(* read_emulators_xml *)

\* An XML element is [tag, children]; children are <<tag, text>> pairs in
\* document order.
Element(tag, children) == [tag |-> tag, children |-> children]

platforms_dir == lb_dir \o "Data/Platforms/"

\* the text of the last child with the given tag, trimmed; "" without one
RECURSIVE LastChildText(_, _, _)
LastChildText(children, tag, acc) ==
    IF children = <<>> THEN acc
    ELSE LastChildText(Tail(children), tag,
                       IF Head(children)[1] = tag
                       THEN Trimmed(Head(children)[2]) ELSE acc)

HasChild(children, tag) == \E i \in 1..Len(children) : children[i][1] = tag

\* <EmulatorPlatform>: the platform the element describes
ReadPlatform(children) ==
    LET name == LastChildText(children, "Platform", "")
    IN  Platform(LastChildText(children, "Emulator", ""),
                 name,
                 LastChildText(children, "CommandLine", ""),
                 IF name # ""
                 THEN CanonicalFilePath(platforms_dir \o name \o ".xml")
                 ELSE "")

\* <Emulator>: the emulator the element describes; app_path is only set by
\* an ApplicationPath child
ReadEmulator(children) ==
    Emulator(IF HasChild(children, "ApplicationPath")
             THEN CanonicalFilePath(
                      FileInfo(lb_dir, LastChildText(children, "ApplicationPath", "")))
             ELSE "",
             LastChildText(children, "CommandLine", ""))

\* one warning for each ApplicationPath child that resolves to no file
RECURSIVE MissingEmulatorLog(_)
MissingEmulatorLog(children) ==
    IF children = <<>> THEN <<>>
    ELSE (IF /\ Head(children)[1] = "ApplicationPath"
             /\ CanonicalFilePath(FileInfo(lb_dir, Trimmed(Head(children)[2]))) = ""
          THEN <<"emulator does not exist">> ELSE <<>>)
         \o MissingEmulatorLog(Tail(children))

\* an insertion that replaces the value of an existing key
Emplace_Overwrite(map, key, value) ==
    [k \in DOMAIN map \cup {key} |-> IF k = key THEN value ELSE map[k]]

\* std::unordered_map::emplace: an existing key keeps its value
Emplace(map, key, value) ==
    IF key \in DOMAIN map THEN map ELSE map @@ (key :> value)

\* one iteration of the element loop; out is [emus, platforms, log]
RegStep(out, el) ==
    IF el.tag = "EmulatorPlatform"
    THEN LET platform == ReadPlatform(el.children)
         IN  IF ~PlatformIncomplete(platform)
             THEN [out EXCEPT !.platforms = Append(@, platform)]
             ELSE out
    ELSE IF el.tag = "Emulator"
    THEN LET emu_id == LastChildText(el.children, "ID", "")
             emu    == ReadEmulator(el.children)
             warned == [out EXCEPT !.log = @ \o MissingEmulatorLog(el.children)]
         IN  IF emu_id # "" /\ ~EmulatorIncomplete(emu)
             THEN [warned EXCEPT !.emus = Emplace(@, emu_id, emu)]
             ELSE warned
    ELSE out

\* the final loop with the pruning left out
PrunePlatforms_KeepAll(out) == out

\* remove platforms without emulator, one warning for each
PrunePlatforms(out) ==
    LET keep(p) == p.default_emu_id \in DOMAIN out.emus
        gone    == SelectSeq(out.platforms, LAMBDA p : ~keep(p))
    IN  [out EXCEPT !.platforms = SelectSeq(@, keep),
                    !.log = @ \o [i \in 1..Len(gone) |-> "platform refers to missing emulator"]]

EmptyEmulatorData == [emus |-> EmptyMap, platforms |-> <<>>, log |-> <<>>]

RECURSIVE RegLoop(_, _)
RegLoop(out, elems) ==
    IF elems = <<>> THEN out ELSE RegLoop(RegStep(out, Head(elems)), Tail(elems))

\* read_emulators_xml that reads the elements below any root element
read_emulators_xml_AnyRoot(reg) ==
    IF ~reg.open
    THEN [EmptyEmulatorData EXCEPT !.log = <<"could not open">>]
    ELSE PrunePlatforms(RegLoop(EmptyEmulatorData, reg.elems))

\* reg: [open, root, elems, error]: whether the file opens, the tag of its
\* root element ("" for none), the elements read before the document ends
\* or turns malformed, and whether it turned malformed
read_emulators_xml(reg) ==
    IF ~reg.open
    THEN [EmptyEmulatorData EXCEPT !.log = <<"could not open">>]
    ELSE LET looped == IF reg.root = "LaunchBox"
                       THEN RegLoop(EmptyEmulatorData, reg.elems)
                       ELSE EmptyEmulatorData
             failed == reg.root # "LaunchBox" \/ reg.error
             warned == IF failed
                       THEN [looped EXCEPT !.log = Append(@, "xml error")]
                       ELSE looped
         IN  PrunePlatforms(warned)

-----------------------------------------------------------------------------
(* SpecRegistry: read_emulators_xml, one registry element at a time *)

MaxRegElems == 3

RegElements ==
    { Element("Emulator", << <<"ID", "ea">>, <<"ApplicationPath", "emu/ea.exe">>,
                             <<"CommandLine", " -a ">> >>),
      Element("Emulator", << <<"ApplicationPath", "/lb/alt/eb.exe">>,
                             <<"ID", "eb">> >>),
      Element("Emulator", << <<"ApplicationPath", "emu/ea.exe">> >>),
      Element("Emulator", << <<"ID", "ec">>, <<"ApplicationPath", "emu/gone.exe">> >>),
      Element("Emulator", << <<"ID", " ea ">>, <<"ApplicationPath", "alt/eb.exe">> >>),
      Element("Emulator", << <<"ID", "ed">> >>),
      Element("EmulatorPlatform", << <<"Emulator", "ea">>, <<"Platform", "NES">> >>),
      Element("EmulatorPlatform", << <<"Platform", " SNES">>, <<"Emulator", "eb">>,
                                     <<"CommandLine", "-p">> >>),
      Element("EmulatorPlatform", << <<"Emulator", "ec">>, <<"Platform", "NES">> >>),
      Element("EmulatorPlatform", << <<"Emulator", "ed">>, <<"Platform", "SNES">> >>),
      Element("EmulatorPlatform", << <<"Emulator", "ea">>, <<"Platform", "Atari">> >>),
      Element("EmulatorPlatform", << <<"Platform", "NES">> >>),
      Element("Settings", << <<"ID", "ea">> >>) }

InitRegistry ==
    /\ games = EmptyMap
    /\ path_to_gameid = EmptyMap
    /\ collections = {}
    /\ collection_childs = EmptyMap
    /\ emus = EmptyMap
    /\ platforms = <<>>
    /\ pc = "reg_open"
    /\ pidx = 0
    /\ gameid_map = EmptyMap
    /\ addiapps = <<>>
    /\ xmlerr = FALSE
    /\ nread = [game |-> 0, other |-> 0]
    /\ doc = <<>>
    /\ log = <<>>
    /\ last = [op |-> "init", hist |-> <<>>]

\* the file is opened and its root element read
RegOpen ==
    /\ pc = "reg_open"
    /\ \E open \in BOOLEAN, root \in {"LaunchBox", "Other", ""} :
          LET out == read_emulators_xml(
                        [open |-> open, root |-> root, elems |-> <<>>, error |-> FALSE])
          IN  IF open /\ root = "LaunchBox"
              THEN /\ pc' = "reg_elems"
                   /\ UNCHANGED <<emus, platforms, log, xmlerr>>
              ELSE /\ pc' = "reg_done"
                   /\ emus' = out.emus
                   /\ platforms' = out.platforms
                   /\ log' = out.log
                   /\ xmlerr' = open
    /\ last' = [op |-> "open", hist |-> <<>>]
    /\ UNCHANGED <<doc, games, path_to_gameid, collections, collection_childs, pidx,
                   gameid_map, addiapps, nread>>

\* one top-level element of the registry
RegElement ==
    /\ pc = "reg_elems"
    /\ Len(last.hist) < MaxRegElems
    /\ \E el \in RegElements :
          LET out == RegStep([emus |-> emus, platforms |-> platforms, log |-> log], el)
          IN  /\ emus' = out.emus
              /\ platforms' = out.platforms
              /\ log' = out.log
              /\ last' = [op |-> "element", hist |-> Append(last.hist, el)]
    /\ UNCHANGED <<doc, games, path_to_gameid, collections, collection_childs, pc,
                   pidx, gameid_map, addiapps, xmlerr, nread>>

\* the document ends or turns malformed; the platforms are pruned
RegEnd ==
    /\ pc = "reg_elems"
    /\ \E error \in BOOLEAN :
          LET out == PrunePlatforms(
                        [emus |-> emus, platforms |-> platforms,
                         log |-> IF error THEN Append(log, "xml error") ELSE log])
          IN  /\ emus' = out.emus
              /\ platforms' = out.platforms
              /\ log' = out.log
              /\ xmlerr' = error
    /\ pc' = "reg_done"
    /\ last' = [op |-> "end", hist |-> last.hist]
    /\ UNCHANGED <<doc, games, path_to_gameid, collections, collection_childs, pidx,
                   gameid_map, addiapps, nread>>

NextRegistry == RegOpen \/ RegElement \/ RegEnd

SpecRegistry == InitRegistry /\ [][NextRegistry]_vars

\* the element defines emulator id with an executable that exists
DefinesEmulator(el, id) ==
    /\ el.tag = "Emulator"
    /\ id # ""
    /\ \E i \in 1..Len(el.children) :
          /\ el.children[i] \in {<<"ID", id>>, <<"ID", " " \o id \o " ">>}
          /\ \A j \in (i + 1)..Len(el.children) : el.children[j][1] # "ID"
    /\ \E i \in 1..Len(el.children) :
          /\ el.children[i][1] = "ApplicationPath"
          /\ Exists(FileInfo(lb_dir, el.children[i][2]))

\* C3: in the result of the registry parse every platform's default emulator
\* is a key of the emulator map, and every key of the map was defined, with
\* an id and an existing executable, by some Emulator element of the
\* document; so a platform whose emulator was never defined, had no id or has
\* no executable is not in the result, wherever the elements stand.
C3_ReferentialPruning ==
    pc = "reg_done" =>
        /\ \A i \in 1..Len(platforms) : platforms[i].default_emu_id \in DOMAIN emus
        /\ \A id \in DOMAIN emus :
              \E k \in 1..Len(last.hist) : DefinesEmulator(last.hist[k], id)

\* C3 witness: a platform that stands before its emulator survives, one that
\* names an emulator without executable was read and is gone
C3_Witness ==
    /\ pc = "reg_done"
    /\ Len(last.hist) = 3
    /\ last.hist[1].tag = "EmulatorPlatform"
    /\ <<"Emulator", "ec">> \in SeqRange(last.hist[1].children)
    /\ last.hist[2].tag = "EmulatorPlatform"
    /\ <<"Emulator", "ea">> \in SeqRange(last.hist[2].children)
    /\ DefinesEmulator(last.hist[3], "ea")
    /\ Len(platforms) = 1
    /\ platforms[1].default_emu_id = "ea"
    /\ "platform refers to missing emulator" \in SeqRange(log)

-----------------------------------------------------------------------------
(* platform catalog parser: store_game, platform_xml_read_game,
   store_addiapp.  A context cx is the record
   [games, path_to_gameid, collection_childs, gameid_map, log]. *)

\* the loop that reads the children of a <Game> or <AdditionalApplication>:
\* unknown tags are skipped, texts trimmed, empty texts dropped, and the
\* first value of a field stays
RECURSIVE ReadFields(_, _, _)
ReadFields(children, field_map, values) ==
    IF children = <<>> THEN values
    ELSE LET tag      == Head(children)[1]
             contents == Trimmed(Head(children)[2])
         IN  ReadFields(Tail(children), field_map,
                        IF tag \in DOMAIN field_map /\ contents # ""
                        THEN Emplace(values, field_map[tag], contents)
                        ELSE values)

Warn(cx, msg) == [cx EXCEPT !.log = Append(@, msg)]

\* store_game that takes every path for a new one
store_game_NoDedup(cx, finfo, fields, platform, emulators) ==
    LET can_path == CanonicalFilePath(finfo)
        game     == store_game_fields(NewGame(finfo), fields, platform, emulators)
        new_id   == Cardinality(DOMAIN cx.games)
        stored   == [cx EXCEPT !.path_to_gameid = Emplace(@, can_path, new_id),
                               !.games = Emplace(@, new_id, game)]
        game_id  == stored.path_to_gameid[can_path]
    IN  [stored EXCEPT !.collection_childs[platform.name] = Append(@, game_id)]

\* store_game that merges the fields of the entry into a game it reuses
store_game_MergeOnReuse(cx, finfo, fields, platform, emulators) ==
    LET can_path == CanonicalFilePath(finfo)
        fresh    == can_path \notin DOMAIN cx.path_to_gameid
        new_id   == Cardinality(DOMAIN cx.games)
        game_id  == IF fresh THEN new_id ELSE cx.path_to_gameid[can_path]
        base     == IF fresh THEN NewGame(finfo) ELSE cx.games[game_id]
        game     == store_game_fields(base, fields, platform, emulators)
    IN  [cx EXCEPT !.path_to_gameid = Emplace(@, can_path, game_id),
                   !.games = [g \in DOMAIN @ \cup {game_id} |->
                                 IF g = game_id THEN game ELSE @[g]],
                   !.collection_childs[platform.name] = Append(@, game_id)]

\* fields: game_values in the order the hash map yields them
store_game(cx, finfo, fields, platform, emulators) ==
    LET can_path == CanonicalFilePath(finfo)
        fresh    == can_path \notin DOMAIN cx.path_to_gameid
        game     == store_game_fields(NewGame(finfo), fields, platform, emulators)
        new_id   == Cardinality(DOMAIN cx.games)
        warned   == IF fresh /\ game.launch_cmd = ""
                    THEN Warn(cx, "game has no launch command") ELSE cx
        stored   == IF fresh
                    THEN [warned EXCEPT
                            !.path_to_gameid = Emplace(@, can_path, new_id),
                            !.games = Emplace(@, new_id, game)]
                    ELSE warned
        game_id  == stored.path_to_gameid[can_path]
    IN  [stored EXCEPT !.collection_childs[platform.name] = Append(@, game_id)]

\* an id computation that always takes the next free id
StoredGameId_NextId(cx, finfo) == Cardinality(DOMAIN cx.games)

\* the game id store_game returns
StoredGameId(cx, finfo) ==
    LET can_path == CanonicalFilePath(finfo)
    IN  IF can_path \in DOMAIN cx.path_to_gameid
        THEN cx.path_to_gameid[can_path]
        ELSE Cardinality(DOMAIN cx.games)

\* the sanity check without the look at the disk
GameRejection_NoExistCheck(game_values) ==
    IF "ID" \notin DOMAIN game_values THEN "game has no ID"
    ELSE IF "PATH" \notin DOMAIN game_values THEN "game has no path"
    ELSE ""

\* why a <Game> with these values is ignored; "" when it is stored
GameRejection(game_values) ==
    IF "ID" \notin DOMAIN game_values THEN "game has no ID"
    ELSE IF "PATH" \notin DOMAIN game_values THEN "game has no path"
    ELSE IF ~Exists(FileInfo(lb_dir, game_values["PATH"]))
         THEN "game file does not exist"
    ELSE ""

\* the part of platform_xml_read_game after the fields are read
platform_xml_read_game(cx, game_values, fields, platform, emulators) ==
    IF GameRejection(game_values) # ""
    THEN Warn(cx, GameRejection(game_values))
    ELSE LET game_finfo == FileInfo(lb_dir, game_values["PATH"])
             gameid     == StoredGameId(cx, game_finfo)
             stored     == store_game(cx, game_finfo, fields, platform, emulators)
         IN  [stored EXCEPT !.gameid_map = Emplace(@, game_values["ID"], gameid)]

\* the checks of store_addiapp without the look at the disk
AddiappRejection_NoExistCheck(values, gid_map) ==
    IF "ID" \notin DOMAIN values THEN "addiapp has no ID"
    ELSE IF "GAME_ID" \notin DOMAIN values THEN "addiapp has no GameID"
    ELSE IF values["GAME_ID"] \notin DOMAIN gid_map
         THEN "addiapp refers to nonexisting game"
    ELSE IF "PATH" \notin DOMAIN values THEN "addiapp has no path"
    ELSE ""

\* why an <AdditionalApplication> with these values is ignored; "" if stored
AddiappRejection(values, gid_map) ==
    IF "ID" \notin DOMAIN values THEN "addiapp has no ID"
    ELSE IF "GAME_ID" \notin DOMAIN values THEN "addiapp has no GameID"
    ELSE IF values["GAME_ID"] \notin DOMAIN gid_map
         THEN "addiapp refers to nonexisting game"
    ELSE IF "PATH" \notin DOMAIN values THEN "addiapp has no path"
    ELSE IF ~Exists(FileInfo(lb_dir, values["PATH"]))
         THEN "addiapp refers to nonexisting file"
    ELSE ""

\* a search that takes two files for the same only when their names agree
FindFile_ByName(files, finfo) ==
    LET hits == { i \in 1..Len(files) : files[i].fileinfo = finfo }
    IN  IF hits = {} THEN 0 ELSE CHOOSE i \in hits : \A j \in hits : i <= j

\* index of the first entry of files that is the file finfo, 0 without one
FindFile(files, finfo) ==
    LET hits == { i \in 1..Len(files) : SameFile(files[i].fileinfo, finfo) }
    IN  IF hits = {} THEN 0 ELSE CHOOSE i \in hits : \A j \in hits : i <= j

\* store_addiapp without the entry in the dedup index
store_addiapp_NoRegister(cx, values) ==
    IF AddiappRejection(values, cx.gameid_map) # ""
    THEN Warn(cx, AddiappRejection(values, cx.gameid_map))
    ELSE LET path_finfo == FileInfo(lb_dir, values["PATH"])
             gameid     == cx.gameid_map[values["GAME_ID"]]
             files      == cx.games[gameid].files
         IN  IF FindFile(files, path_finfo) # 0 THEN cx
             ELSE [cx EXCEPT !.games[gameid].files =
                                Append(@, GameFile(path_finfo))]

\* store_addiapp that maps the path to the target game also when the index
\* holds the path
store_addiapp_Remap(cx, values) ==
    IF AddiappRejection(values, cx.gameid_map) # ""
    THEN Warn(cx, AddiappRejection(values, cx.gameid_map))
    ELSE LET path_finfo == FileInfo(lb_dir, values["PATH"])
             gameid     == cx.gameid_map[values["GAME_ID"]]
             can_path   == CanonicalFilePath(path_finfo)
             files      == cx.games[gameid].files
             at         == FindFile(files, path_finfo)
             named(f)   == IF "NAME" \in DOMAIN values
                           THEN [f EXCEPT !.name = values["NAME"]] ELSE f
             files2     == IF at # 0
                           THEN [files EXCEPT ![at] = named(@)]
                           ELSE Append(files, named(GameFile(path_finfo)))
         IN  [cx EXCEPT !.games[gameid].files = files2,
                        !.path_to_gameid = Emplace_Overwrite(@, can_path, gameid)]

store_addiapp(cx, values) ==
    IF AddiappRejection(values, cx.gameid_map) # ""
    THEN Warn(cx, AddiappRejection(values, cx.gameid_map))
    ELSE LET path_finfo == FileInfo(lb_dir, values["PATH"])
             gameid     == cx.gameid_map[values["GAME_ID"]]
             can_path   == CanonicalFilePath(path_finfo)
             files      == cx.games[gameid].files
             at         == FindFile(files, path_finfo)
             named(f)   == IF "NAME" \in DOMAIN values
                           THEN [f EXCEPT !.name = values["NAME"]] ELSE f
             files2     == IF at # 0
                           THEN [files EXCEPT ![at] = named(@)]
                           ELSE Append(files, named(GameFile(path_finfo)))
         IN  [cx EXCEPT !.games[gameid].files = files2,
                        !.path_to_gameid = Emplace(@, can_path, gameid)]

-----------------------------------------------------------------------------
(* asset matcher: build_escaped_title_map, find_assets_in, find_videos_in,
   find_assets.  A directory is the sequence of the files below it, as
   paths relative to it, in the order the directory iterator yields them. *)

\* the characters of rx_invalid
InvalidTitleChars == {"<", ">", ":", "\"", "/", "\\", "|", "?", "*", "'"}

\* title.replace(rx_invalid, underscore)
RECURSIVE EscapeTitle(_)
EscapeTitle(title) ==
    IF Len(title) = 0 THEN ""
    ELSE (IF CharAt(title, 1) \in InvalidTitleChars THEN "_" ELSE CharAt(title, 1))
         \o EscapeTitle(SubSeq(title, 2, Len(title)))

RECURSIVE EscapedTitleLoop(_, _, _)
EscapedTitleLoop(coll_childs, gms, out) ==
    IF coll_childs = <<>> THEN out
    ELSE EscapedTitleLoop(Tail(coll_childs), gms,
             Emplace(out, EscapeTitle(gms[Head(coll_childs)].title), Head(coll_childs)))

build_escaped_title_map(coll_childs, gms) ==
    EscapedTitleLoop(coll_childs, gms, EmptyMap)

\* the title_to_gameid_map loop of find_assets
RECURSIVE RawTitleLoop(_, _, _)
RawTitleLoop(coll_childs, gms, out) ==
    IF coll_childs = <<>> THEN out
    ELSE RawTitleLoop(Tail(coll_childs), gms,
             Emplace(out, gms[Head(coll_childs)].title, Head(coll_childs)))

build_title_map(coll_childs, gms) == RawTitleLoop(coll_childs, gms, EmptyMap)

\* the title an image or music file is looked up under
AssetTitle(basename, has_num_suffix) ==
    IF has_num_suffix THEN Left(basename, Len(basename) - 3) ELSE basename

RECURSIVE find_assets_in(_, _, _, _, _, _)
find_assets_in(asset_dir, files, asset_type, has_num_suffix, title_map, gms) ==
    IF files = <<>> THEN gms
    ELSE LET file_path  == asset_dir \o "/" \o Head(files)
             game_title == AssetTitle(CompleteBaseName(file_path), has_num_suffix)
         IN  find_assets_in(asset_dir, Tail(files), asset_type, has_num_suffix,
                 title_map,
                 IF game_title \in DOMAIN title_map
                 THEN [gms EXCEPT ![title_map[game_title]] =
                                     AddFileMaybe(@, asset_type, file_path)]
                 ELSE gms)

\* the title a video file is looked up under first
VideoTitle(basename) ==
    LET idx == IF EndsWith(basename, ")") THEN LastIndexOf(basename, "(", -2) ELSE -1
        title_range_end == IF 0 < idx THEN idx ELSE Len(basename)
    IN  Trimmed(SubSeq(basename, 1, title_range_end))

\* the retry title with the move of ", The" left out
VideoRetryTitle_NoArticle(game_title) == ReplaceAll(game_title, " - ", ": ")

\* the title a video file is looked up under after a miss
VideoRetryTitle(game_title) ==
    LET replaced == ReplaceAll(game_title, " - ", ": ")
    IN  IF EndsWith(replaced, ", The")
        THEN "The " \o Left(replaced, Len(replaced) - 5)
        ELSE replaced

\* the game a video file belongs to, -1 for none
VideoGame(basename, title_map) ==
    LET game_title == VideoTitle(basename)
    IN  IF game_title \in DOMAIN title_map THEN title_map[game_title]
        ELSE IF VideoRetryTitle(game_title) \in DOMAIN title_map
             THEN title_map[VideoRetryTitle(game_title)]
        ELSE -1

RECURSIVE find_videos_in(_, _, _, _)
find_videos_in(asset_dir, files, title_map, gms) ==
    IF files = <<>> THEN gms
    ELSE LET file_path == asset_dir \o "/" \o Head(files)
             gameid    == VideoGame(CompleteBaseName(file_path), title_map)
         IN  find_videos_in(asset_dir, Tail(files), title_map,
                 IF gameid # -1
                 THEN [gms EXCEPT ![gameid] = AddFileMaybe(@, "VIDEOS", file_path)]
                 ELSE gms)

\* the files of a directory of the tree, none when it does not exist
DirFiles(dirs, name) == IF name \in DOMAIN dirs THEN dirs[name] ELSE <<>>

\* the loop of find_assets over the image categories
RECURSIVE ImageLoop(_, _, _, _, _)
ImageLoop(dirmap, images, images_root, title_map, gms) ==
    IF dirmap = <<>> THEN gms
    ELSE ImageLoop(Tail(dirmap), images, images_root, title_map,
             find_assets_in(images_root \o Head(dirmap)[1],
                            DirFiles(images, Head(dirmap)[1]),
                            Head(dirmap)[2], TRUE, title_map, gms))

\* find_assets that matches the files against every game of the context
find_assets_AllGames(platform, dirmap, tree, gms, childs) ==
    LET collection == [i \in 1..Cardinality(DOMAIN gms) |-> i - 1]
        esctitle_to_gameid_map == build_escaped_title_map(collection, gms)
        images_root == lb_dir \o "Images/" \o platform.name \o "/"
        music_root  == lb_dir \o "Music/" \o platform.name
        video_root  == lb_dir \o "Videos/" \o platform.name
        imaged == ImageLoop(dirmap, tree.images, images_root,
                            esctitle_to_gameid_map, gms)
        musiced == find_assets_in(music_root, tree.music, "MUSIC", FALSE,
                                  esctitle_to_gameid_map, imaged)
        title_to_gameid_map == build_title_map(collection, musiced)
    IN  find_videos_in(video_root, tree.videos, title_to_gameid_map, musiced)

\* tree: [images, music, videos], the asset directories of the platform:
\* images maps a category directory to its files, music and videos are the
\* files below the platform's music and video directory
find_assets(platform, dirmap, tree, gms, childs) ==
    IF platform.name \notin DOMAIN childs THEN gms
    ELSE LET collection == childs[platform.name]
             esctitle_to_gameid_map == build_escaped_title_map(collection, gms)
             images_root == lb_dir \o "Images/" \o platform.name \o "/"
             music_root  == lb_dir \o "Music/" \o platform.name
             video_root  == lb_dir \o "Videos/" \o platform.name
             imaged == ImageLoop(dirmap, tree.images, images_root,
                                 esctitle_to_gameid_map, gms)
             musiced == find_assets_in(music_root, tree.music, "MUSIC", FALSE,
                                       esctitle_to_gameid_map, imaged)
             title_to_gameid_map == build_title_map(collection, musiced)
         IN  find_videos_in(video_root, tree.videos, title_to_gameid_map, musiced)

-----------------------------------------------------------------------------
(* Spec: LaunchboxProvider::findLists, the whole import *)

\* <Game> elements and other elements read during one import, over all
\* platform files
MaxGames == 2

MaxOthers == 1

\* registry documents the import may find
RegDocs ==
    LET ea   == Element("Emulator", << <<"ID", "ea">>,
                    <<"ApplicationPath", "emu/ea.exe">>, <<"CommandLine", "-a">> >>)
        eb   == Element("Emulator", << <<"ID", "eb">>,
                    <<"ApplicationPath", "alt/eb.exe">> >>)
        nes  == Element("EmulatorPlatform", << <<"Emulator", "ea">>,
                    <<"Platform", "NES">> >>)
        snes == Element("EmulatorPlatform", << <<"Emulator", "eb">>,
                    <<"Platform", "SNES">>, <<"CommandLine", "-p">> >>)
        lost == Element("EmulatorPlatform", << <<"Emulator", "ec">>,
                    <<"Platform", "SNES">> >>)
        RegDoc(open, root, elems, error) ==
            [open |-> open, root |-> root, elems |-> elems, error |-> error]
    IN  { RegDoc(TRUE, "LaunchBox", <<nes, ea, snes, eb>>, FALSE),
          RegDoc(TRUE, "LaunchBox", <<ea, lost, nes>>, TRUE),
          RegDoc(TRUE, "LaunchBox", <<ea, lost>>, FALSE),
          RegDoc(TRUE, "LaunchBox", <<nes, snes>>, FALSE),
          RegDoc(TRUE, "Other", <<ea, nes>>, FALSE),
          RegDoc(FALSE, "", <<>>, FALSE) }

\* <Game> elements a platform file may hold
GameElems ==
    { << <<"ID", "g1">>, <<"ApplicationPath", "g/a.rom">>,
         <<"Title", "The Metroid Prime">> >>,
      << <<"ID", "g2">>, <<"Unknown", "x">>, <<"ApplicationPath", "g/lnk.rom">>,
         <<"Title", "Alias">> >>,
      << <<"ID", " g2 ">>, <<"ApplicationPath", " g/b.rom ">>,
         <<"Title", "Zelda: Link">>, <<"Title", "Second">> >>,
      << <<"ID", "g1">>, <<"ApplicationPath", "/lb/g/c.rom">>, <<"Title", "">>,
         <<"Emulator", "eb">> >>,
      << <<"ApplicationPath", "g/b.rom">>, <<"Title", "No Id">> >>,
      << <<"ID", "g3">>, <<"ApplicationPath", "  ">> >>,
      << <<"ID", "g3">>, <<"ApplicationPath", "g/gone.rom">> >> }

\* <AdditionalApplication> elements a platform file may hold
AddiappElems ==
    { << <<"Id", "x1">>, <<"GameID", "g1">>, <<"ApplicationPath", "g/b.rom">>,
         <<"Name", "Alt">> >>,
      << <<"Id", "x2">>, <<"GameID", "g2">>, <<"ApplicationPath", "g/a.rom">> >>,
      << <<"Id", "x3">>, <<"GameID", "g2">>, <<"ApplicationPath", "g/c.rom">>,
         <<"Name", "Extra">> >>,
      << <<"Id", "x4">>, <<"GameID", "g1">>, <<"ApplicationPath", "g/lnk.rom">>,
         <<"Name", "Main">> >>,
      << <<"Id", "x5">>, <<"GameID", "g9">>, <<"ApplicationPath", "g/a.rom">> >>,
      << <<"GameID", "g1">>, <<"ApplicationPath", "g/b.rom">> >>,
      << <<"Id", "x7">>, <<"ApplicationPath", "g/b.rom">> >>,
      << <<"Id", "x8">>, <<"GameID", "g1">> >>,
      << <<"Id", "x9">>, <<"GameID", "g1">>, <<"ApplicationPath", "g/gone.rom">> >> }

\* asset directories a platform may have
AssetTrees ==
    { [images |-> EmptyMap, music |-> <<>>, videos |-> <<>>],
      [images |-> ("Box - Front - Reconstructed" :> <<"The Metroid Prime-01.png">>)
                  @@ ("Box - Front" :> <<"Alias-02.jpg", "sub/The Metroid Prime-02.png">>),
       music  |-> <<"Zelda_ Link.mp3">>,
       videos |-> <<"Metroid Prime, The (USA).mp4", "Alias.mp4">>] }

Init ==
    /\ games = EmptyMap
    /\ path_to_gameid = EmptyMap
    /\ collections = {}
    /\ collection_childs = EmptyMap
    /\ emus = EmptyMap
    /\ platforms = <<>>
    /\ pc = "start"
    /\ pidx = 0
    /\ gameid_map = EmptyMap
    /\ addiapps = <<>>
    /\ xmlerr = FALSE
    /\ nread = [game |-> 0, other |-> 0]
    /\ doc = <<>>
    /\ log = <<>>
    /\ last = [op |-> "init"]

\* the context the parser operators work on, and its write-back
Cx == [games |-> games, path_to_gameid |-> path_to_gameid,
       collection_childs |-> collection_childs, gameid_map |-> gameid_map,
       log |-> log]

SetCx(cx) ==
    /\ games' = cx.games
    /\ path_to_gameid' = cx.path_to_gameid
    /\ collection_childs' = cx.collection_childs
    /\ gameid_map' = cx.gameid_map
    /\ log' = cx.log

\* findLists up to the platform loop: the library root is looked up and the
\* registry parsed
FindListsStart ==
    /\ pc = "start"
    /\ \E found \in BOOLEAN, reg \in RegDocs :
          LET out == read_emulators_xml(reg)
          IN  IF ~found
              THEN /\ log' = Append(log, "no installation found")
                   /\ pc' = "done"
                   /\ last' = [op |-> "findLists", found |-> FALSE]
                   /\ UNCHANGED <<emus, platforms, pidx>>
              ELSE /\ emus' = out.emus
                   /\ platforms' = out.platforms
                   /\ last' = [op |-> "findLists", found |-> TRUE, reg |-> reg]
                   /\ IF out.emus = EmptyMap
                      THEN /\ log' = log \o out.log \o <<"no emulator settings found">>
                           /\ pc' = "done"
                           /\ UNCHANGED pidx
                      ELSE IF out.platforms = <<>>
                      THEN /\ log' = log \o out.log \o <<"no platforms found">>
                           /\ pc' = "done"
                           /\ UNCHANGED pidx
                      ELSE /\ log' = log \o out.log
                           /\ pc' = "open"
                           /\ pidx' = 1
    /\ UNCHANGED <<doc, games, path_to_gameid, collections, collection_childs,
                   gameid_map, addiapps, xmlerr, nread>>

\* process_platform_xml up to the element loop of platform_xml_read_root
OpenPlatformXml ==
    /\ pc = "open"
    /\ \E open \in BOOLEAN, root \in {"LaunchBox", "Other"} :
          LET name == platforms[pidx].name
          IN  /\ last' = [op |-> "open", open |-> open, root |-> root]
              /\ IF ~open
                 THEN /\ log' = Append(log, "could not open")
                      /\ pc' = "assets"
                      /\ UNCHANGED <<collections, collection_childs, xmlerr>>
                 ELSE IF root # "LaunchBox"
                 THEN /\ log' = Append(log, "xml error")
                      /\ pc' = "assets"
                      /\ xmlerr' = FALSE
                      /\ UNCHANGED <<collections, collection_childs>>
                 ELSE /\ collections' = collections \cup {name}
                      /\ collection_childs' =
                            IF name \in DOMAIN collection_childs
                            THEN collection_childs
                            ELSE collection_childs @@ (name :> <<>>)
                      /\ pc' = "elems"
                      /\ xmlerr' = FALSE
                      /\ UNCHANGED log
    /\ gameid_map' = EmptyMap
    /\ addiapps' = <<>>
    /\ UNCHANGED <<games, path_to_gameid, emus, platforms, pidx, nread>>
    /\ doc' = <<>>


\* platform_xml_read_game on the next element of the file, a <Game>
ReadGame ==
    /\ pc = "elems"
    /\ nread.game < MaxGames
    /\ \E children \in GameElems :
          LET game_values == ReadFields(children, gamefield_map, EmptyMap)
          IN  \E fields \in FieldOrders(game_values) :
                 /\ SetCx(platform_xml_read_game(Cx, game_values, fields,
                                                 platforms[pidx], emus))
                 /\ doc' = Append(doc, [kind |-> "game", values |-> game_values])
                 /\ last' = [op |-> "game"]
    /\ nread' = [nread EXCEPT !.game = @ + 1]
    /\ UNCHANGED <<collections, emus, platforms, pc, pidx, addiapps, xmlerr>>

\* a single-pass reader: the entry is stored as soon as it is read
ReadAddiapp_Immediate ==
    /\ pc = "elems"
    /\ nread.other < MaxOthers
    /\ \E children \in AddiappElems :
          LET values == ReadFields(children, addiappfield_map, EmptyMap)
          IN  /\ SetCx(store_addiapp(Cx, values))
              /\ doc' = Append(doc, [kind |-> "addiapp", values |-> values])
              /\ last' = [op |-> "addiapp"]
    /\ nread' = [nread EXCEPT !.other = @ + 1]
    /\ UNCHANGED <<collections, emus, platforms, pc, pidx, addiapps, xmlerr>>

\* platform_xml_read_addiapp on the next element, an <AdditionalApplication>
ReadAddiapp ==
    /\ pc = "elems"
    /\ nread.other < MaxOthers
    /\ \E children \in AddiappElems :
          LET values == ReadFields(children, addiappfield_map, EmptyMap)
          IN  /\ addiapps' = Append(addiapps, values)
              /\ doc' = Append(doc, [kind |-> "addiapp", values |-> values])
              /\ last' = [op |-> "addiapp"]
    /\ nread' = [nread EXCEPT !.other = @ + 1]
    /\ UNCHANGED <<games, path_to_gameid, collections, collection_childs, emus,
                   platforms, pc, pidx, gameid_map, xmlerr, log>>

\* xml.skipCurrentElement() on any other element
SkipElement ==
    /\ pc = "elems"
    /\ nread.other < MaxOthers
    /\ nread' = [nread EXCEPT !.other = @ + 1]
    /\ last' = [op |-> "skip"]
    /\ UNCHANGED <<games, path_to_gameid, collections, collection_childs, emus,
                   platforms, pc, pidx, gameid_map, addiapps, xmlerr, log>>
    /\ doc' = Append(doc, [kind |-> "other", values |-> EmptyMap])

\* the element loop ends: the document is over or has turned malformed
EndElements ==
    /\ pc = "elems"
    /\ \E error \in BOOLEAN :
          /\ xmlerr' = error
          /\ last' = [op |-> "end", error |-> error]
    /\ pc' = "addi"
    /\ UNCHANGED <<doc, games, path_to_gameid, collections, collection_childs, emus,
                   platforms, pidx, gameid_map, addiapps, nread, log>>

\* one iteration of the loop over the collected addiapps
StoreAddiapp ==
    /\ pc = "addi"
    /\ addiapps # <<>>
    /\ SetCx(store_addiapp(Cx, Head(addiapps)))
    /\ addiapps' = Tail(addiapps)
    /\ last' = [op |-> "store_addiapp"]
    /\ UNCHANGED <<doc, collections, emus, platforms, pc, pidx, xmlerr, nread>>

\* the end of a platform file that goes on to the next platform's file
\* without the asset matching
EndPlatformXml_SkipAssets ==
    /\ pc = "addi"
    /\ addiapps = <<>>
    /\ log' = IF xmlerr THEN Append(log, "xml error") ELSE log
    /\ IF pidx < Len(platforms)
       THEN pc' = "open" /\ pidx' = pidx + 1
       ELSE pc' = "done" /\ UNCHANGED pidx
    /\ gameid_map' = EmptyMap
    /\ doc' = <<>>
    /\ xmlerr' = FALSE
    /\ last' = [op |-> "close"]
    /\ UNCHANGED <<games, path_to_gameid, collections, collection_childs, emus,
                   platforms, addiapps, nread>>

\* platform_xml_read_root returns and its locals are gone;
\* process_platform_xml reports an error of the reader
EndPlatformXml ==
    /\ pc = "addi"
    /\ addiapps = <<>>
    /\ log' = IF xmlerr THEN Append(log, "xml error") ELSE log
    /\ pc' = "assets"
    /\ gameid_map' = EmptyMap
    /\ doc' = <<>>
    /\ xmlerr' = FALSE
    /\ last' = [op |-> "close"]
    /\ UNCHANGED <<games, path_to_gameid, collections, collection_childs, emus,
                   platforms, pidx, addiapps, nread>>

\* find_assets for the platform, then on to the next platform
FindAssets ==
    /\ pc = "assets"
    /\ \E tree \in AssetTrees :
          /\ games' = find_assets(platforms[pidx], assetdir_map, tree, games,
                                  collection_childs)
          /\ last' = [op |-> "find_assets"]
    /\ IF pidx < Len(platforms)
       THEN pc' = "open" /\ pidx' = pidx + 1
       ELSE pc' = "done" /\ UNCHANGED pidx
    /\ UNCHANGED <<doc, path_to_gameid, collections, collection_childs, emus,
                   platforms, gameid_map, addiapps, xmlerr, nread, log>>

Next ==
    \/ FindListsStart
    \/ OpenPlatformXml
    \/ ReadGame
    \/ ReadAddiapp
    \/ SkipElement
    \/ EndElements
    \/ StoreAddiapp
    \/ EndPlatformXml
    \/ FindAssets

Spec == Init /\ [][Next]_vars

\* the structure of the state
TypeOK ==
    /\ DOMAIN games = 0..(Cardinality(DOMAIN games) - 1)
    /\ \A p \in DOMAIN path_to_gameid : path_to_gameid[p] \in DOMAIN games
    /\ pc \in {"start", "open", "elems", "addi", "assets", "done"}
    /\ nread.game \in 0..MaxGames
    /\ nread.other \in 0..MaxOthers

-----------------------------------------------------------------------------
(* properties of the catalog parser, checked under Spec *)

\* the canonical path of the file a game record was created for
SourcePath(g) == CanonicalFilePath(games[g].files[1].fileinfo)

\* the step reads a <Game> element; its field values
IsGameStep == last'.op = "game" /\ Len(doc') = Len(doc) + 1

ReadGameValues == doc'[Len(doc')].values

\* the values name an ID, a path, and the path is a file on disk
GameAcceptable(v) ==
    /\ "ID" \in DOMAIN v
    /\ "PATH" \in DOMAIN v
    /\ Exists(FileInfo(lb_dir, v["PATH"]))

\* C1: no two game records have the same canonical source path, and a Game
\* entry whose canonical path is in the dedup index creates no record: the
\* set of records stays and the id that joins the collection is the one the
\* index holds for the path.
C1_DedupInvariant ==
    /\ [](\A g1, g2 \in DOMAIN games :
            SourcePath(g1) = SourcePath(g2) => g1 = g2)
    /\ [][(/\ IsGameStep
           /\ GameAcceptable(ReadGameValues)
           /\ CanonicalFilePath(FileInfo(lb_dir, ReadGameValues["PATH"]))
                 \in DOMAIN path_to_gameid)
          => LET can  == CanonicalFilePath(FileInfo(lb_dir, ReadGameValues["PATH"]))
                 name == platforms[pidx].name
             IN  /\ DOMAIN games' = DOMAIN games
                 /\ path_to_gameid' = path_to_gameid
                 /\ collection_childs'[name] =
                        Append(collection_childs[name], path_to_gameid[can])]_vars

\* C1 witness: a second platform's entry reaches, through a link, the file a
\* game of the first platform was created for, and there is still one record
C1_Witness ==
    /\ last.op = "game"
    /\ pidx = 2
    /\ GameAcceptable(doc[Len(doc)].values)
    /\ doc[Len(doc)].values["PATH"] = "g/lnk.rom"
    /\ DOMAIN games = {0}
    /\ games[0].files[1].fileinfo = "/lb/g/a.rom"
    /\ DOMAIN collection_childs = {"NES", "SNES"}
    /\ collection_childs["NES"] = <<0>>
    /\ collection_childs["SNES"] = <<0>>

\* C6: a Game element without ID, without Path or with a Path that is no
\* file leaves games, dedup index, collections, child lists and the local id
\* map as they were and adds exactly one diagnostic; what is read after it
\* therefore finds the state it would find without the element.
C6_SkippedGameAtomic ==
    [][(IsGameStep /\ ~GameAcceptable(ReadGameValues))
       => /\ UNCHANGED <<games, path_to_gameid, collections, collection_childs,
                         gameid_map, addiapps>>
          /\ Len(log') = Len(log) + 1
          /\ SubSeq(log', 1, Len(log)) = log]_vars

\* C6 witness: after one game was stored, an element whose file is missing
\* has been read and ignored
C6_Witness ==
    /\ last.op = "game"
    /\ Len(doc) = 2
    /\ GameAcceptable(doc[1].values)
    /\ "PATH" \in DOMAIN doc[2].values
    /\ ~Exists(FileInfo(lb_dir, doc[2].values["PATH"]))
    /\ DOMAIN games = {0}
    /\ DOMAIN gameid_map = {doc[1].values["ID"]}
    /\ log[Len(log)] = "game file does not exist"

\* the values name an Id, a game of the id map and a file on disk
AddiappAcceptable(v, gid_map) ==
    /\ "ID" \in DOMAIN v
    /\ "GAME_ID" \in DOMAIN v
    /\ v["GAME_ID"] \in DOMAIN gid_map
    /\ "PATH" \in DOMAIN v
    /\ Exists(FileInfo(lb_dir, v["PATH"]))

\* the values of the <AdditionalApplication> elements of a document, in order
RECURSIVE AddiappsOf(_)
AddiappsOf(d) ==
    IF d = <<>> THEN <<>>
    ELSE (IF Head(d).kind = "addiapp" THEN <<Head(d).values>> ELSE <<>>)
         \o AddiappsOf(Tail(d))

\* the file is among the launch files of the game
HasFile(g, finfo) ==
    \E i \in 1..Len(games[g].files) : SameFile(games[g].files[i].fileinfo, finfo)

\* C9: while the elements of a platform file are read every
\* AdditionalApplication read so far is still waiting, none is stored; and
\* when all of them are stored, each complete entry that names the ID of a
\* stored Game element of the file, standing before or after it, has its
\* file among the launch files of the game that first took the ID.
C9_TwoPass ==
    /\ [](pc = "elems" => addiapps = AddiappsOf(doc))
    /\ []((pc = "addi" /\ addiapps = <<>>) =>
            \A i \in 1..Len(doc) :
               LET v    == doc[i].values
                   defs == { j \in 1..Len(doc) :
                               /\ doc[j].kind = "game"
                               /\ GameAcceptable(doc[j].values)
                               /\ "GAME_ID" \in DOMAIN v
                               /\ doc[j].values["ID"] = v["GAME_ID"] }
                   first == CHOOSE j \in defs : \A k \in defs : j <= k
               IN  (/\ doc[i].kind = "addiapp"
                    /\ defs # {}
                    /\ "ID" \in DOMAIN v
                    /\ "PATH" \in DOMAIN v
                    /\ Exists(FileInfo(lb_dir, v["PATH"])))
                   => HasFile(path_to_gameid[CanonicalFilePath(
                                  FileInfo(lb_dir, doc[first].values["PATH"]))],
                              FileInfo(lb_dir, v["PATH"])))

\* C9 witness: the file began with an AdditionalApplication for g1, the Game
\* g1 came after it, and the game ends up with the extra launch file
C9_Witness ==
    /\ pc = "addi"
    /\ addiapps = <<>>
    /\ last.op = "store_addiapp"
    /\ Len(doc) = 2
    /\ doc[1].kind = "addiapp"
    /\ doc[2].kind = "game"
    /\ GameAcceptable(doc[2].values)
    /\ AddiappAcceptable(doc[1].values, gameid_map)
    /\ doc[1].values["GAME_ID"] = doc[2].values["ID"]
    /\ DOMAIN games = {0}
    /\ Len(games[0].files) = 2
    /\ games[0].files[2] = [fileinfo |-> "/lb/g/b.rom", name |-> "Alt"]

\* the step stores the first waiting AdditionalApplication, which is complete
IsAddiappStored ==
    /\ pc = "addi"
    /\ last'.op = "store_addiapp"
    /\ addiapps # <<>>
    /\ addiapps' = Tail(addiapps)
    /\ AddiappAcceptable(Head(addiapps), gameid_map)

AddiappCanPath == CanonicalFilePath(FileInfo(lb_dir, Head(addiapps)["PATH"]))

AddiappGame == gameid_map[Head(addiapps)["GAME_ID"]]

\* C10 as stated: after an AdditionalApplication with existing file P is
\* stored for game G, the dedup index maps the canonical path of P to G,
\* also when P was registered before.
C10_AddiappRegistersPath ==
    [][IsAddiappStored
       => /\ AddiappCanPath \in DOMAIN path_to_gameid'
          /\ path_to_gameid'[AddiappCanPath] = AddiappGame]_vars

\* C10 amended: after the store the canonical path of P is in the dedup
\* index; it maps to G when P was not in the index before and keeps the game
\* it was mapped to otherwise, and no other entry of the index changes.  A
\* later Game entry with that path joins the game the index names.
C10_AddiappRegistersIfNew ==
    /\ [][IsAddiappStored
          => /\ AddiappCanPath \in DOMAIN path_to_gameid'
             /\ path_to_gameid'[AddiappCanPath] =
                   IF AddiappCanPath \in DOMAIN path_to_gameid
                   THEN path_to_gameid[AddiappCanPath]
                   ELSE AddiappGame
             /\ \A p \in DOMAIN path_to_gameid :
                   /\ p \in DOMAIN path_to_gameid'
                   /\ path_to_gameid'[p] = path_to_gameid[p]]_vars
    /\ [](\A g \in DOMAIN games : \A i \in 1..Len(games[g].files) :
            (pc # "addi" \/ last.op = "store_addiapp") =>
                CanonicalFilePath(games[g].files[i].fileinfo)
                    \in DOMAIN path_to_gameid)

\* C10 witness: b.rom was attached to game 0 by an AdditionalApplication of
\* the first platform, and the Game entry for b.rom in the second platform's
\* file joined game 0 instead of making a record
C10_Witness ==
    /\ pidx = 2
    /\ last.op = "game"
    /\ GameAcceptable(doc[Len(doc)].values)
    /\ CanonicalFilePath(FileInfo(lb_dir, doc[Len(doc)].values["PATH"])) = "/lb/g/b.rom"
    /\ DOMAIN games = {0}
    /\ games[0].files[1].fileinfo = "/lb/g/a.rom"
    /\ Len(games[0].files) = 2
    /\ games[0].files[2].fileinfo = "/lb/g/b.rom"
    /\ path_to_gameid["/lb/g/b.rom"] = 0
    /\ DOMAIN collection_childs = {"NES", "SNES"}
    /\ collection_childs["SNES"] = <<0>>

-----------------------------------------------------------------------------
(* SpecAssets: find_assets for one platform whose games are known, over the
   asset directories the library may hold *)

\* most files in one asset directory
MaxDirFiles == 2

\* the sequences of at most n different members of S: the files of a
\* directory in an order the directory iterator may yield them
Arrangements(S, n) ==
    UNION { { q \in [1..k -> S] : \A i, j \in 1..k : i # j => q[i] # q[j] }
            : k \in 0..n }

\* the titles of the platform's games, in collection order
AssetTitleLists ==
    { <<"The Metroid Prime">>,
      <<"The Metroid Prime", "Zelda: Link">>,
      <<"Zelda: Link", "Zelda - Link">>,
      <<"Alias", "Zelda: Link", "Metroid Prime, The">>,
      <<"Zelda: Link", "Zelda_ Link">>,
      <<"The Metroid Prime", "The Metroid Prime">> }

AssetRoms == <<"/lb/g/a.rom", "/lb/g/b.rom", "/lb/g/c.rom">>

ImageNames == {"The Metroid Prime-01.png", "sub/The Metroid Prime-02.jpg",
               "Zelda_ Link-01.png"}

VideoNames == {"Metroid Prime, The (USA).mp4", "Zelda - Link.mp4",
               "Alias (USA) (v2).avi", "Contra.mp4"}

MusicDirs == {<<>>, <<"Zelda_ Link.mp3">>}

AssetDirTrees ==
    { [images |-> ("Box - Front" :> front) @@ ("Box - Front - Reconstructed" :> recon),
       music  |-> music,
       videos |-> videos] :
        front \in Arrangements(ImageNames, MaxDirFiles),
        recon \in Arrangements(ImageNames, MaxDirFiles),
        music \in MusicDirs,
        videos \in Arrangements(VideoNames, MaxDirFiles) }

\* files of the 'Clear Logo' directory, with and without a numeric tag
LogoNames == {"Alias.png", "Aliasxyz.png", "Alias-01.png"}

LogoMusicDirs == {<<>>, <<"Alias-01.mp3">>, <<"Alias.mp3">>}

\* asset directories with logos and music only
LogoTrees ==
    { [images |-> ("Box - Front" :> <<>>) @@ ("Box - Front - Reconstructed" :> <<>>)
                  @@ ("Clear Logo" :> logos),
       music  |-> music,
       videos |-> <<>>] :
        logos \in Arrangements(LogoNames, MaxDirFiles),
        music \in LogoMusicDirs }

\* the state after the catalog of platform NES is parsed: one game per title
InitAssets ==
    /\ \E titles \in AssetTitleLists :
          /\ games = [g \in 0..(Len(titles) - 1) |->
                        [NewGame(AssetRoms[g + 1]) EXCEPT !.title = titles[g + 1]]]
          /\ path_to_gameid = [p \in {AssetRoms[i] : i \in 1..Len(titles)} |->
                                 CHOOSE g \in 0..(Len(titles) - 1) : AssetRoms[g + 1] = p]
          /\ collection_childs = ("NES" :> [i \in 1..Len(titles) |-> i - 1])
    /\ collections = {"NES"}
    /\ emus = ("ea" :> Emulator("/lb/emu/ea.exe", "-a"))
    /\ platforms = <<Platform("ea", "NES", "", platforms_dir \o "NES.xml")>>
    /\ pc = "assets"
    /\ pidx = 1
    /\ gameid_map = EmptyMap
    /\ addiapps = <<>>
    /\ xmlerr = FALSE
    /\ nread = [game |-> 0, other |-> 0]
    /\ doc = <<>>
    /\ log = <<>>
    /\ last = [op |-> "init"]

\* find_assets for the platform
AssetsPass ==
    /\ pc = "assets"
    /\ \E tree \in AssetDirTrees \cup LogoTrees :
          /\ games' = find_assets(platforms[pidx], assetdir_map, tree, games,
                                  collection_childs)
          /\ last' = [op |-> "find_assets", tree |-> tree]
    /\ pc' = "done"
    /\ UNCHANGED <<doc, path_to_gameid, collections, collection_childs, emus,
                   platforms, pidx, gameid_map, addiapps, xmlerr, nread, log>>

NextAssets == AssetsPass

SpecAssets == InitAssets /\ [][NextAssets]_vars

\* the pass over the asset directories is done
AssetsDone == pc = "done" /\ last.op = "find_assets"

\* the escaped title each image file name stands for
ImageTitleOf ==
    ("The Metroid Prime-01.png" :> "The Metroid Prime")
    @@ ("sub/The Metroid Prime-02.jpg" :> "The Metroid Prime")
    @@ ("Zelda_ Link-01.png" :> "Zelda_ Link")

\* the files of the sequence that stand for game g, in order
RECURSIVE ImagesFor(_, _, _)
ImagesFor(files, g, escmap) ==
    IF files = <<>> THEN <<>>
    ELSE (IF /\ ImageTitleOf[Head(files)] \in DOMAIN escmap
             /\ escmap[ImageTitleOf[Head(files)]] = g
          THEN <<Head(files)>> ELSE <<>>)
         \o ImagesFor(Tail(files), g, escmap)

\* C4: after the pass over a platform's asset directories no game has more
\* than one file of an asset type; the box-front image of a game is the first
\* matching file of 'Box - Front' when that directory holds one, whatever
\* 'Box - Front - Reconstructed' holds, and the first matching file of
\* 'Box - Front - Reconstructed' only when 'Box - Front' holds none.
C4_AssetPrecedence ==
    AssetsDone =>
        LET escmap == build_escaped_title_map(collection_childs["NES"], games)
            root   == lb_dir \o "Images/NES/"
        IN  \A g \in DOMAIN games :
               LET front == ImagesFor(last.tree.images["Box - Front"], g, escmap)
                   recon == ImagesFor(last.tree.images["Box - Front - Reconstructed"],
                                      g, escmap)
               IN  /\ \A t \in AssetType : Len(games[g].assets[t]) <= 1
                   /\ games[g].assets["BOX_FRONT"] =
                         IF front # <<>>
                         THEN <<root \o "Box - Front/" \o Head(front)>>
                         ELSE IF recon # <<>>
                         THEN <<root \o "Box - Front - Reconstructed/" \o Head(recon)>>
                         ELSE <<>>

\* C4 witness: both directories hold a file for The Metroid Prime and the
\* one of 'Box - Front' is attached
C4_Witness ==
    /\ AssetsDone
    /\ last.tree.images["Box - Front"] = <<"sub/The Metroid Prime-02.jpg">>
    /\ last.tree.images["Box - Front - Reconstructed"] = <<"The Metroid Prime-01.png">>
    /\ games[0].title = "The Metroid Prime"
    /\ games[0].assets["BOX_FRONT"] =
          <<"/lb/Images/NES/Box - Front/sub/The Metroid Prime-02.jpg">>

\* the key each video file name is looked up under, and the key of the retry
VideoKeyOf ==
    ("Metroid Prime, The (USA).mp4" :> "Metroid Prime, The")
    @@ ("Zelda - Link.mp4" :> "Zelda - Link")
    @@ ("Alias (USA) (v2).avi" :> "Alias (USA)")
    @@ ("Contra.mp4" :> "Contra")

VideoRetryKeyOf ==
    ("Metroid Prime, The (USA).mp4" :> "The Metroid Prime")
    @@ ("Zelda - Link.mp4" :> "Zelda: Link")
    @@ ("Alias (USA) (v2).avi" :> "Alias (USA)")
    @@ ("Contra.mp4" :> "Contra")

\* the game the claim gives a video file to, -1 for none
VideoTarget(file, title_map) ==
    IF VideoKeyOf[file] \in DOMAIN title_map THEN title_map[VideoKeyOf[file]]
    ELSE IF VideoRetryKeyOf[file] \in DOMAIN title_map
         THEN title_map[VideoRetryKeyOf[file]]
    ELSE -1

\* C5: a video file goes to the game whose title is its base name without
\* the trailing parenthetical, trimmed; only when no game has that title it
\* goes to the game whose title is that key with ' - ' replaced by ': ' and
\* a trailing ', The' moved to a leading 'The '; when no game has that title
\* either it goes to no game.  A game's video is the first file of the
\* directory that goes to it.
C5_VideoFallback ==
    AssetsDone =>
        LET title_map == build_title_map(collection_childs["NES"], games)
            videos    == last.tree.videos
        IN  \A g \in DOMAIN games :
               LET mine == { i \in 1..Len(videos) : VideoTarget(videos[i], title_map) = g }
               IN  games[g].assets["VIDEOS"] =
                      IF mine = {} THEN <<>>
                      ELSE <<lb_dir \o "Videos/NES/"
                             \o videos[CHOOSE i \in mine : \A k \in mine : i <= k]>>

\* C5 witness: no game is titled 'Metroid Prime, The', the retry finds
\* 'The Metroid Prime', and the file without a game is attached nowhere
C5_Witness ==
    /\ AssetsDone
    /\ last.tree.videos = <<"Contra.mp4", "Metroid Prime, The (USA).mp4">>
    /\ DOMAIN games = {0}
    /\ games[0].title = "The Metroid Prime"
    /\ games[0].assets["VIDEOS"] = <<"/lb/Videos/NES/Metroid Prime, The (USA).mp4">>

-----------------------------------------------------------------------------
(* properties of the platform loop, checked under Spec *)

\* the step ends the reading of the platform file with a failure: the file
\* does not open, has no <LaunchBox> root, or turns malformed among the
\* elements
IsPlatformFailure ==
    \/ /\ pc = "open"
       /\ last'.op = "open"
       /\ (~last'.open \/ last'.root # "LaunchBox")
    \/ /\ pc = "elems"
       /\ last'.op = "end"
       /\ last'.error

\* the platform file has failed and the platform is not yet left
PlatformFailed == pc = "addi" /\ xmlerr

\* C11: a failure of a platform file is reported, the import goes on to the
\* asset matching and from there to the next platform, and from the failure
\* until the asset matching the failing platform changes no game, no entry
\* of the dedup index, no collection and no child list.
C11_PlatformIsolation ==
    /\ [][IsPlatformFailure => pc' \in {"addi", "assets"}]_vars
    /\ [][(pc = "assets" /\ pidx < Len(platforms))
          => (pc' = "open" /\ pidx' = pidx + 1)]_vars
    /\ [][(pc = "open" /\ pc' = "assets") => Len(log') = Len(log) + 1]_vars
    /\ [][(PlatformFailed /\ pc' = "assets") => Len(log') = Len(log) + 1]_vars
    /\ [][PlatformFailed
          => UNCHANGED <<games, path_to_gameid, collections, collection_childs>>]_vars

\* the step is the start of findLists
IsFindListsStart == pc = "start" /\ last'.op = "findLists"

\* the import ends at once: the shared context is as it was and no platform
\* file will be opened
ImportSkipped ==
    /\ pc' = "done"
    /\ UNCHANGED <<games, path_to_gameid, collections, collection_childs>>

\* the emulators and platforms the elements of a registry document give,
\* read without regard to its root and its end
RegistryYield(reg) == PrunePlatforms(RegLoop(EmptyEmulatorData, reg.elems))

-----------------------------------------------------------------------------
(* properties of the title indexes, checked under SpecAssets *)

\* the escaped form of each title of AssetTitleLists
EscapedTitleOf ==
    ("The Metroid Prime" :> "The Metroid Prime")
    @@ ("Zelda: Link" :> "Zelda_ Link")
    @@ ("Zelda_ Link" :> "Zelda_ Link")
    @@ ("Zelda - Link" :> "Zelda - Link")
    @@ ("Alias" :> "Alias")
    @@ ("Metroid Prime, The" :> "Metroid Prime, The")

\* the positions of the child list whose game has key k under keyOf
KeyPositions(childs, keyOf, k) ==
    { i \in 1..Len(childs) : keyOf[games[childs[i]].title] = k }

RawTitleOf == [t \in DOMAIN EscapedTitleOf |-> t]

MaxOf(S) == CHOOSE i \in S : \A j \in S : j <= i

MinOf(S) == CHOOSE i \in S : \A j \in S : i <= j

\* index maps exactly the keys of the collection's games, each to the game
\* at the last, or else the first, of the positions with that key
IndexPicks(index, childs, keyOf, latest) ==
    /\ DOMAIN index = { keyOf[games[childs[i]].title] : i \in 1..Len(childs) }
    /\ \A k \in DOMAIN index :
          index[k] = childs[IF latest THEN MaxOf(KeyPositions(childs, keyOf, k))
                            ELSE MinOf(KeyPositions(childs, keyOf, k))]

-----------------------------------------------------------------------------
(* properties of the image and music lookup, checked under SpecAssets *)

\* the key of each logo file: its base name, the tag -NN taken off if it
\* ends with one
LogoKeyOf ==
    ("Alias.png" :> "Alias") @@ ("Aliasxyz.png" :> "Aliasxyz")
    @@ ("Alias-01.png" :> "Alias")

\* the key of each music file: its base name as it is
MusicKeyOf ==
    ("Alias-01.mp3" :> "Alias-01") @@ ("Alias.mp3" :> "Alias")
    @@ ("Zelda_ Link.mp3" :> "Zelda_ Link")

\* the asset a game gets from a directory: the first file whose key the
\* index maps to the game
AssetFrom(dir, files, keyOf, index, g) ==
    LET mine == { i \in 1..Len(files) :
                    keyOf[files[i]] \in DOMAIN index /\ index[keyOf[files[i]]] = g }
    IN  IF mine = {} THEN <<>> ELSE <<dir \o "/" \o files[MinOf(mine)]>>

\* the pass went over a tree with a 'Clear Logo' directory
LogosDone == AssetsDone /\ "Clear Logo" \in DOMAIN last.tree.images

\* C16: an image file is looked up under its base name with a trailing -NN
\* taken off and under nothing shorter when it has no such tag; a music file
\* is looked up under its whole base name.
C16_ImageLookupKey ==
    LogosDone =>
        LET index == build_escaped_title_map(collection_childs["NES"], games)
        IN  \A g \in DOMAIN games :
               /\ games[g].assets["LOGO"] =
                     AssetFrom("/lb/Images/NES/Clear Logo",
                               last.tree.images["Clear Logo"], LogoKeyOf, index, g)
               /\ games[g].assets["MUSIC"] =
                     AssetFrom("/lb/Music/NES", last.tree.music, MusicKeyOf, index, g)

-----------------------------------------------------------------------------
(* properties of reuse and of additional applications, checked under Spec *)

\* the step reads a <Game> that is stored and whose canonical path the
\* dedup index already holds
IsGameReuse ==
    /\ IsGameStep
    /\ GameAcceptable(ReadGameValues)
    /\ CanonicalFilePath(FileInfo(lb_dir, ReadGameValues["PATH"]))
          \in DOMAIN path_to_gameid

\* C17: a Game entry whose canonical path is in the dedup index changes no
\* game record, no index entry, no collection and no diagnostic; it appends
\* the game to the child list of its platform, leaves the other child lists
\* alone, and maps its ID to the game unless the file already mapped that ID.
C17_ReuseLeavesGame ==
    [][IsGameReuse
       => LET id   == path_to_gameid[CanonicalFilePath(
                          FileInfo(lb_dir, ReadGameValues["PATH"]))]
              name == platforms[pidx].name
              lid  == ReadGameValues["ID"]
          IN  /\ games' = games
              /\ path_to_gameid' = path_to_gameid
              /\ collections' = collections
              /\ log' = log
              /\ addiapps' = addiapps
              /\ DOMAIN collection_childs' = DOMAIN collection_childs
              /\ \A c \in DOMAIN collection_childs :
                    collection_childs'[c] =
                       IF c = name THEN Append(collection_childs[c], id)
                       ELSE collection_childs[c]
              /\ gameid_map' = IF lid \in DOMAIN gameid_map THEN gameid_map
                               ELSE gameid_map @@ (lid :> id)]_vars

\* C17 witness: the second platform's file names the file of game 0 again;
\* there is still the one record, now a child of both platforms
C17_Witness ==
    /\ pidx = 2
    /\ last.op = "game"
    /\ doc # <<>>
    /\ doc[Len(doc)].kind = "game"
    /\ GameAcceptable(doc[Len(doc)].values)
    /\ doc[Len(doc)].values["PATH"] = "/lb/g/c.rom"
    /\ "EMULATOR" \in DOMAIN doc[Len(doc)].values
    /\ DOMAIN games = {0}
    /\ games[0].files[1].fileinfo = "/lb/g/c.rom"
    /\ DOMAIN collection_childs = {"NES", "SNES"}
    /\ collection_childs["NES"] = <<0>>
    /\ collection_childs["SNES"] = <<0>>
    /\ gameid_map = ("g1" :> 0)

\* the entries of the target game's launch files that are the file of the
\* first waiting AdditionalApplication
AddiappAttached ==
    LET files == games[AddiappGame].files
    IN  { i \in 1..Len(files) :
            CanonicalFilePath(files[i].fileinfo) = AddiappCanPath }

\* C18: storing an AdditionalApplication whose file the target game already
\* has leaves the game's launch files as they are but for the display name
\* of the first entry with that file, which becomes the Name of the entry
\* when it has one; and no game ever has a file twice among its launch files.
C18_AttachedFileOnlyNamed ==
    /\ [][(IsAddiappStored /\ AddiappAttached # {})
          => LET g     == AddiappGame
                 v     == Head(addiapps)
                 at    == MinOf(AddiappAttached)
                 files == games[g].files
             IN  /\ Len(games'[g].files) = Len(files)
                 /\ \A i \in 1..Len(files) :
                       /\ games'[g].files[i].fileinfo = files[i].fileinfo
                       /\ games'[g].files[i].name =
                             IF i = at /\ "NAME" \in DOMAIN v THEN v["NAME"]
                             ELSE files[i].name
                 /\ \A h \in DOMAIN games : h # g => games'[h] = games[h]]_vars
    /\ [](\A g \in DOMAIN games : \A i, j \in 1..Len(games[g].files) :
             CanonicalFilePath(games[g].files[i].fileinfo)
                = CanonicalFilePath(games[g].files[j].fileinfo) => i = j)

\* C18 witness: game 0 was made for a.rom, and the AdditionalApplication that
\* reaches a.rom through a link has only named the one launch file
C18_Witness ==
    /\ pc = "addi"
    /\ last.op = "store_addiapp"
    /\ Len(doc) = 2
    /\ doc[2].kind = "addiapp"
    /\ "PATH" \in DOMAIN doc[2].values
    /\ doc[2].values["PATH"] = "g/lnk.rom"
    /\ DOMAIN games = {0}
    /\ games[0].files = <<[fileinfo |-> "/lb/g/a.rom", name |-> "Main"]>>

\* the step stores the first waiting AdditionalApplication, which lacks a
\* field, names no game of this file or names no file on disk
IsAddiappRejected ==
    /\ pc = "addi"
    /\ last'.op = "store_addiapp"
    /\ addiapps # <<>>
    /\ addiapps' = Tail(addiapps)
    /\ ~AddiappAcceptable(Head(addiapps), gameid_map)

\* C19: an AdditionalApplication without Id, GameID or ApplicationPath, with
\* a GameID that no Game of the same platform file has, or with a file that
\* does not exist changes no game, no entry of the dedup index, no
\* collection and no child list, and adds one diagnostic.
C19_RejectedAddiapp ==
    [][IsAddiappRejected
       => /\ UNCHANGED <<games, path_to_gameid, collections, collection_childs,
                         gameid_map>>
          /\ Len(log') = Len(log) + 1
          /\ SubSeq(log', 1, Len(log)) = log]_vars

\* C19 witness: the first platform's file made game 0 from its Game g1; the
\* second platform's file holds nothing but an AdditionalApplication of g1,
\* which is turned away
C19_Witness ==
    /\ pidx = 2
    /\ pc = "addi"
    /\ last.op = "store_addiapp"
    /\ Len(doc) = 1
    /\ doc[1].kind = "addiapp"
    /\ "GAME_ID" \in DOMAIN doc[1].values
    /\ doc[1].values["GAME_ID"] = "g1"
    /\ {"ID", "PATH"} \subseteq DOMAIN doc[1].values
    /\ Exists(FileInfo(lb_dir, doc[1].values["PATH"]))
    /\ gameid_map = EmptyMap
    /\ DOMAIN games = {0}
    /\ games[0].files = <<[fileinfo |-> "/lb/g/a.rom", name |-> ""]>>
    /\ log # <<>>
    /\ log[Len(log)] = "addiapp refers to nonexisting game"

-----------------------------------------------------------------------------
(* the order of the pipeline, checked under Spec *)

\* the steps of the catalog parser
ParseOps == {"open", "game", "addiapp", "skip", "end", "store_addiapp", "close"}

\* the launch files of every game
FilesOf == [g \in DOMAIN games |-> games[g].files]

\* C20: the platforms are taken in registry order, one after the other; the
\* asset matching of a platform is the one step between the end of its
\* catalog parse, when no additional application is waiting, and the
\* opening of the next platform's file; the parser attaches no asset and
\* the asset matcher changes nothing of the catalog.
C20_PipelineOrder ==
    /\ [](pc \in {"open", "elems", "addi", "assets"} => pidx \in 1..Len(platforms))
    /\ [][pc # "start" => platforms' = platforms]_vars
    /\ [][pidx' # pidx
          => /\ pidx' = pidx + 1
             /\ \/ pc = "start"
                \/ pc = "assets" /\ last'.op = "find_assets" /\ pc' = "open"]_vars
    /\ [][last'.op \in ParseOps
          => /\ pc \in {"open", "elems", "addi"}
             /\ pc' \in {"elems", "addi", "assets"}
             /\ \A g \in DOMAIN games : games'[g].assets = games[g].assets]_vars
    /\ [][(pc # "assets" /\ pc' = "assets")
          => /\ addiapps' = <<>>
             /\ last'.op \in {"open", "close"}]_vars
    /\ [][pc = "assets"
          => /\ last'.op = "find_assets"
             /\ FilesOf' = FilesOf
             /\ UNCHANGED <<path_to_gameid, collections, collection_childs>>
             /\ IF pidx < Len(platforms) THEN pc' = "open" ELSE pc' = "done"]_vars
    /\ [][pc' = "open" => (pc = "start" \/ pc = "assets")]_vars

\* C20 witness: both platforms are done, each has a game, and the game of
\* the first platform has got its box front
C20_Witness ==
    /\ pc = "done"
    /\ last.op = "find_assets"
    /\ pidx = 2
    /\ Len(platforms) = 2
    /\ DOMAIN games = {0, 1}
    /\ DOMAIN collection_childs = {"NES", "SNES"}
    /\ collection_childs["NES"] = <<0>>
    /\ collection_childs["SNES"] = <<1>>
    /\ games[0].assets["BOX_FRONT"] # <<>>

-----------------------------------------------------------------------------
(* properties of the shared context, checked under Spec *)

\* the members of a child list
Members(childs) == { childs[i] : i \in 1..Len(childs) }

\* C21: the child list of a platform holds each of its games once, in the
\* order in which they were first found: a stored Game entry appends its
\* game to the list of its platform when the game is not yet in it and
\* leaves the list alone when it is.
C21_CollectionIsSet ==
    /\ [](\A c \in DOMAIN collection_childs : NoDuplicates(collection_childs[c]))
    /\ [][(IsGameStep /\ GameAcceptable(ReadGameValues))
          => LET name == platforms[pidx].name
                 can  == CanonicalFilePath(FileInfo(lb_dir, ReadGameValues["PATH"]))
                 id   == path_to_gameid'[can]
             IN  collection_childs'[name] =
                    IF id \in Members(collection_childs[name])
                    THEN collection_childs[name]
                    ELSE Append(collection_childs[name], id)]_vars

\* C23: the game ids are 0..n-1; every id that the dedup index, a child list
\* or the local id map holds is the id of a game record; and a step that
\* makes a record makes one, under the id n that no record had, and keeps
\* every other record under its id.
C23_ReferentialIntegrity ==
    /\ [](/\ DOMAIN games = 0..(Cardinality(DOMAIN games) - 1)
          /\ \A p \in DOMAIN path_to_gameid : path_to_gameid[p] \in DOMAIN games
          /\ \A c \in DOMAIN collection_childs :
                Members(collection_childs[c]) \subseteq DOMAIN games
          /\ \A k \in DOMAIN gameid_map : gameid_map[k] \in DOMAIN games)
    /\ [][DOMAIN games' # DOMAIN games
          => /\ DOMAIN games' = DOMAIN games \cup {Cardinality(DOMAIN games)}
             /\ Cardinality(DOMAIN games) \notin DOMAIN games
             /\ \A g \in DOMAIN games : games'[g] = games[g]]_vars

\* C23 witness: two games of one file, both in the local id map and the
\* child list, and a third path that an additional application registered
C23_Witness ==
    /\ pc = "addi"
    /\ last.op = "store_addiapp"
    /\ DOMAIN games = {0, 1}
    /\ gameid_map = ("g1" :> 0) @@ ("g2" :> 1)
    /\ DOMAIN collection_childs = {"NES"}
    /\ collection_childs["NES"] = <<0, 1>>
    /\ DOMAIN path_to_gameid = {"/lb/g/a.rom", "/lb/g/b.rom", "/lb/g/c.rom"}
    /\ path_to_gameid["/lb/g/c.rom"] = 1

\* q starts with p
IsPrefix(p, q) == Len(p) <= Len(q) /\ SubSeq(q, 1, Len(p)) = p

\* C24: no step removes a game record, an entry of the dedup index, a
\* collection or a member of a child list, and a path that the dedup index
\* maps to a game is mapped to that game ever after.
C24_ContextOnlyGrows ==
    [][/\ DOMAIN games \subseteq DOMAIN games'
       /\ DOMAIN path_to_gameid \subseteq DOMAIN path_to_gameid'
       /\ \A p \in DOMAIN path_to_gameid : path_to_gameid'[p] = path_to_gameid[p]
       /\ collections \subseteq collections'
       /\ DOMAIN collection_childs \subseteq DOMAIN collection_childs'
       /\ \A c \in DOMAIN collection_childs :
             IsPrefix(collection_childs[c], collection_childs'[c])]_vars

\* C24 witness: a.rom belongs to game 0; an additional application has
\* attached it to game 1 as well and the index still gives game 0
C24_Witness ==
    /\ pc = "addi"
    /\ last.op = "store_addiapp"
    /\ DOMAIN games = {0, 1}
    /\ games[0].files[1].fileinfo = "/lb/g/a.rom"
    /\ Len(games[1].files) = 2
    /\ games[1].files[2].fileinfo = "/lb/g/a.rom"
    /\ path_to_gameid["/lb/g/a.rom"] = 0

\* the games the asset matcher of the current platform may touch
InScope ==
    IF platforms[pidx].name \in DOMAIN collection_childs
    THEN Members(collection_childs[platforms[pidx].name])
    ELSE {}

\* C25: the asset matching of a platform changes nothing but the assets of
\* games in the child list the platform has at that time: every other game,
\* and everything but the assets of those games, stays as it is, and so do
\* the dedup index, the collections and the child lists; a platform without
\* a child list changes no game.
C25_AssetsScopedToPlatform ==
    [][pc = "assets"
       => /\ DOMAIN games' = DOMAIN games
          /\ \A g \in DOMAIN games :
                /\ g \notin InScope => games'[g] = games[g]
                /\ [games'[g] EXCEPT !.assets = games[g].assets] = games[g]
          /\ UNCHANGED <<path_to_gameid, collections, collection_childs,
                         gameid_map, log>>]_vars

\* C25 witness: the first platform has The Metroid Prime and no asset files;
\* the second platform's directories hold files for that title and for its
\* own game, and only its own game has got one
C25_Witness ==
    /\ pc = "done"
    /\ last.op = "find_assets"
    /\ pidx = 2
    /\ DOMAIN games = {0, 1}
    /\ DOMAIN collection_childs = {"NES", "SNES"}
    /\ collection_childs["NES"] = <<0>>
    /\ collection_childs["SNES"] = <<1>>
    /\ games[0].title = "The Metroid Prime"
    /\ \A t \in AssetType : games[0].assets[t] = <<>>
    /\ games[1].assets["MUSIC"] = <<"/lb/Music/SNES/Zelda_ Link.mp3">>

=============================================================================
